---- MODULE Spec2Model ----
(***************************************************************************)
(* Verification model of library/verify_ctrld.py: the Ansible module that  *)
(* downloads the ctrld binary into a cache file, verifies it against a     *)
(* detached SHA256 manifest and moves it onto the destination path.        *)
(*                                                                         *)
(* Text (URLs, manifest text, digests) is a sequence of one-character      *)
(* strings; a path is a sequence of components; a file is a record of its  *)
(* content and its permission bits.                                        *)
(***************************************************************************)
EXTENDS Integers, Sequences, FiniteSets, TLC

\* ------------------------------------------------------------------ bounds
\* Number of distinct binary contents the remote, the cache and the
\* destination can hold (1..MaxContent).
MaxContent == 2
\* Longest manifest text explored by the lookup specification.
MaxTextLen == 5
\* Longest target filename explored by the lookup specification.
MaxNameLen == 2

\* ------------------------------------------------------- program constants
\* os.chmod(dest, 0o755)
Mode755 == 493
\* Mode of a file created by urlretrieve under the usual umask 022 (0o644).
Mode644 == 420

\* --------------------------------------------------------------- text
Whitespace == {" ", "\n"}
NameChars == {"a", "b"}
TextChars == NameChars \cup Whitespace

\* All sequences over S of length 0..n.
RECURSIVE SeqsUpTo(_, _)
SeqsUpTo(S, n) ==
  IF n = 0 THEN {<<>>}
  ELSE LET shorter == SeqsUpTo(S, n - 1)
       IN  shorter \cup {Append(s, c) : s \in {t \in shorter : Len(t) = n - 1}, c \in S}

\* Python `needle in hay` on strings: needle occurs as a contiguous substring.
Contains(hay, needle) ==
  \E i \in 1..(Len(hay) - Len(needle) + 1) :
     \A j \in 1..Len(needle) : hay[i + j - 1] = needle[j]

\* Iterating a text file: the lines in file order, each with its trailing "\n"
\* (the last line has none when the text does not end in a newline).
FileLines(text) ==
  LET lines[t \in Seq(STRING)] ==
        IF t = <<>> THEN <<>>
        ELSE LET nl == {i \in 1..Len(t) : t[i] = "\n"}
             IN  IF nl = {} THEN <<t>>
                 ELSE LET k == CHOOSE i \in nl : \A j \in nl : i <= j
                      IN  <<SubSeq(t, 1, k)>> \o lines[SubSeq(t, k + 1, Len(t))]
  IN  lines[text]

\* str.split() without arguments: the maximal runs of non-whitespace characters.
StrSplit(line) ==
  LET split[l \in Seq(STRING)] ==
        IF l = <<>> THEN <<>>
        ELSE IF Head(l) \in Whitespace THEN split[Tail(l)]
        ELSE LET stops == {i \in 1..Len(l) : l[i] \in Whitespace}
                 e == IF stops = {} THEN Len(l) + 1
                      ELSE CHOOSE i \in stops : \A j \in stops : i <= j
             IN  <<SubSeq(l, 1, e - 1)>> \o split[SubSeq(l, e, Len(l))]
  IN  split[line]

\* os.path.basename(url): what follows the last "/".
Basename(url) ==
  LET slashes == {i \in 1..Len(url) : url[i] = "/"}
  IN  IF slashes = {} THEN url
      ELSE LET k == CHOOSE i \in slashes : \A j \in slashes : j <= i
           IN  SubSeq(url, k + 1, Len(url))

\* Outcome of the manifest scan.
NotFound == [kind |-> "none", sha |-> <<>>]
IndexError == [kind |-> "error", sha |-> <<>>]
Found(tok) == [kind |-> "found", sha |-> tok]

\* The scan of lines 48-53 over a list of lines: the first line containing the
\* name decides (break); its first token is the digest; a matching line with
\* no token at all makes line.split()[0] raise IndexError.
RECURSIVE ScanLines(_, _)
ScanLines(lines, name) ==
  IF lines = <<>> THEN NotFound
  ELSE IF Contains(Head(lines), name)
       THEN LET toks == StrSplit(Head(lines))
            IN  IF toks = <<>> THEN IndexError ELSE Found(toks[1])
       ELSE ScanLines(Tail(lines), name)

\* Mutant: the last matching line decides (the loop without its break).
RECURSIVE ScanLinesLast(_, _)
ScanLinesLast(lines, name) ==
  IF lines = <<>> THEN NotFound
  ELSE LET rest == ScanLinesLast(Tail(lines), name)
       IN  IF rest.kind # "none" THEN rest
           ELSE IF Contains(Head(lines), name)
                THEN LET toks == StrSplit(Head(lines))
                     IN  IF toks = <<>> THEN IndexError ELSE Found(toks[1])
                ELSE NotFound

ExpectedShaLastWins(text, name) == ScanLinesLast(FileLines(text), name)

\* Mutant: a line matches only when one of its tokens is exactly the name.
RECURSIVE ScanLinesExact(_, _)
ScanLinesExact(lines, name) ==
  IF lines = <<>> THEN NotFound
  ELSE LET toks == StrSplit(Head(lines))
       IN  IF \E i \in DOMAIN toks : toks[i] = name
             THEN Found(toks[1])
             ELSE ScanLinesExact(Tail(lines), name)

ExpectedShaExactName(text, name) == ScanLinesExact(FileLines(text), name)

\* expected_sha as computed by lines 48-55 from the manifest text.
ExpectedSha(text, name) == ScanLines(FileLines(text), name)

\* --------------------------------------------------------------- files
\* Content 0 is what an interrupted write leaves behind (a truncated file).
Partial == 0
Contents == 1..MaxContent
NoFile == [ex |-> FALSE, c |-> 0, m |-> 0]
File(c, m) == [ex |-> TRUE, c |-> c, m |-> m]
Modes == {Mode644, Mode755}

\* sha256sum(filename) of lines 11-16, on the content: the hex digest, a
\* one-character text here, different for different contents.
HexDigits == <<"0", "1", "2", "3", "4", "5", "6", "7">>
sha256sum(c) == <<HexDigits[c + 1]>>

\* os.path.dirname(dest) on a path given by its components.
Dirname(path) == SubSeq(path, 1, Len(path) - 1)
\* The directories os.makedirs(d) creates: d and all its ancestors.
Ancestors(d) == {SubSeq(d, 1, k) : k \in 1..Len(d)}

\* ------------------------------------------------------------- inputs
\* module.params['url']: the binary's URL; its basename names the cache file.
Urls == {<<"h", "/", "a">>}
\* module.params['dest']: an absolute path two directories deep and a bare
\* file name (a path with no directory part).
Dests == {<<"/", "opt", "bin", "ctrld">>, <<"ctrld">>}
\* The directory trees the host can start with.
DirStates == {{<<"/">>}, {<<"/">>, <<"/", "opt">>},
              {<<"/">>, <<"/", "opt">>, <<"/", "opt", "bin">>}}

\* Manifests the publisher can serve for the binary named by u.
GoodManifest(u, c) == sha256sum(c) \o <<" ", " ">> \o Basename(u) \o <<"\n">>
OtherEntryManifest == sha256sum(1) \o <<" ", " ", "b", "\n">>
FalseMatchManifest(u) ==
  sha256sum(2) \o <<" ", " ">> \o Basename(u) \o <<"b", "\n">> \o GoodManifest(u, 1)
ManifestPool(u) ==
  {GoodManifest(u, c) : c \in Contents} \cup {OtherEntryManifest, FalseMatchManifest(u)}

Procs == {1, 2}
\* The invocations that run under Spec: one at a time.
Serial == {1}

VARIABLES
  url, dest,          \* the module's parameters
  remoteBin,          \* content served at url; 0 when the fetch cannot connect
  remoteManifest,     \* [up, text] served at checksum_url
  cache_file,         \* the file at tempdir/basename(url)
  checksum_file,      \* [ex, text]: the file at tempdir/ctrld.sha256
  dest_file,          \* the file at dest
  dirs,               \* the directories that exist
  pc,                 \* per invocation: the statement of main() it is at
  expected_sha,       \* per invocation: local expected_sha (<<>> is None)
  actual_sha,         \* per invocation: local actual_sha
  changed,            \* per invocation: local changed
  result,             \* per invocation: what exit_json / fail_json reported
  dest0,              \* history: dest_file when the invocation began
  cache0,             \* history: cache_file when the invocation began
  log,                \* history: the steps the invocation has taken
  writes,             \* history: the files the invocation has written
  prev,               \* history: summary of the run before, if nothing happened in between
  ltext, lname, lres, \* the lookup specification's manifest text, name and result
  wfd,                \* per invocation: the file its download is writing, if any
  raced,              \* history: another invocation wrote a shared file since this one began
  dargs,              \* drift detector: the task's arguments
  dhost,              \* drift detector: the configuration files on the host and in the baseline
  drift_analysis,     \* drift detector: self.drift_results['drift_analysis']
  drift_summary,      \* drift detector: self.drift_results['drift_summary']
  dresult,            \* drift detector: what run() returns
  dpc,                \* drift detector: the statement of run() it is at
  vargs,              \* network validator: the task's arguments
  validation_summary, \* network validator: self.validation_results['validation_summary']
  detailed_results,   \* network validator: self.validation_results['detailed_results']
  vlog,               \* history: the tests executed so far and how each ended
  vresult,            \* network validator: what run() returns
  vpc                 \* network validator: the statement of run() it is at

locals == <<pc, expected_sha, actual_sha, changed, result, dest0, cache0, log, writes>>
fs == <<cache_file, checksum_file, dest_file, dirs>>
remote == <<remoteBin, remoteManifest>>
inputs == <<url, dest>>
lookup == <<ltext, lname, lres>>
shared == <<wfd, raced>>
detector == <<dargs, dhost, drift_analysis, drift_summary, dresult, dpc>>
validator == <<vargs, validation_summary, detailed_results, vlog, vresult, vpc>>
plugins == <<detector, validator>>
start0 == <<dest0, cache0>>
vars == <<inputs, remote, fs, locals, prev, lookup, shared, plugins>>

\* ====================================================== the drift detector
\* gb_config_drift_detector.py. Configuration paths are short texts; "p"
\* stands for a path under critical_files, "s" for one under major_files,
\* "b" for what the ignore pattern matches.
MaxPaths == 2
Paths == {<<"p">>, <<"x">>, <<"x", "b">>}
critical_files == {<<"p">>}
major_files == {<<"s">>}

Range(sq) == {sq[i] : i \in DOMAIN sq}
Max(a, b) == IF a >= b THEN a ELSE b

\* _determine_file_severity(file_path)
determine_file_severity(path) ==
  IF \E c \in critical_files : Contains(path, c) THEN "critical"
  ELSE IF \E m \in major_files : Contains(path, m) THEN "major"
  ELSE "minor"

\* _should_ignore_path(path, ignore_patterns), for patterns without
\* metacharacters: re.search finds the pattern anywhere in the path.
should_ignore_path(path, ignore_patterns) ==
  \E i \in DOMAIN ignore_patterns : Contains(path, ignore_patterns[i])

\* A configuration path on the host: whether it exists, its checksum, and the
\* checksum the baseline records for it (0: the baseline has no entry).
MissingFile == [ex |-> FALSE, cur |-> 0, base |-> 0]
HostFiles == {MissingFile} \cup {[ex |-> TRUE, cur |-> 1, base |-> b] : b \in 0..2}
DriftHosts(config_paths) ==
  {h \in [Paths -> HostFiles] : \A q \in Paths \ Range(config_paths) : h[q] = MissingFile}

FileInfo(path, severity) == [path |-> path, severity |-> severity]
EmptyFileResults ==
  [checked_files |-> <<>>, modified_files |-> <<>>, new_files |-> <<>>,
   deleted_files |-> <<>>, checksum_changes |-> {}]

\* One iteration of the loop of _check_configuration_files (lines 254-318).
CheckConfigPath(r, path, host, ignore_patterns) ==
  IF ~host[path].ex
    THEN [r EXCEPT !.deleted_files = Append(@, FileInfo(path, "major"))]
  ELSE IF should_ignore_path(path, ignore_patterns)
    THEN r
  ELSE LET seen == [r EXCEPT !.checksum_changes = @ \cup {path}]
       IN  IF host[path].base # 0
             THEN IF host[path].cur # host[path].base
                    THEN [seen EXCEPT !.modified_files =
                            Append(@, FileInfo(path, determine_file_severity(path)))]
                    ELSE [seen EXCEPT !.checked_files = Append(@, FileInfo(path, "minor"))]
             ELSE [seen EXCEPT !.new_files = Append(@, FileInfo(path, "minor"))]

\* The whole loop over config_paths, in order.
RECURSIVE CheckConfigPaths(_, _, _, _)
CheckConfigPaths(r, config_paths, host, ignore_patterns) ==
  IF config_paths = <<>> THEN r
  ELSE CheckConfigPaths(CheckConfigPath(r, Head(config_paths), host, ignore_patterns),
                        Tail(config_paths), host, ignore_patterns)

\* _check_services: what `systemctl is-active` says of each key service
\* ("error": the call raises and the service is left out).
key_services == <<"ssh", "ctrld", "firewalld", "systemd-resolved", "networking">>
critical_services == {"ssh", "ctrld", "networking"}
ServiceHosts ==
  {[n \in Range(key_services) |-> "active"],
   [n \in Range(key_services) |-> IF n \in {"ssh", "firewalld"} THEN "inactive" ELSE "active"],
   [n \in Range(key_services) |-> "error"]}
ServiceInfo(name, status) ==
  [name |-> name, status |-> status,
   severity |-> IF name \in critical_services /\ status # "active" THEN "major" ELSE "minor"]
EmptyServiceResults == [checked_services |-> <<>>, stopped_services |-> <<>>]

RECURSIVE CheckKeyServices(_, _, _)
CheckKeyServices(r, names, st) ==
  IF names = <<>> THEN r
  ELSE LET n == Head(names)
           info == ServiceInfo(n, st[n])
           next == IF st[n] = "error" THEN r
                   ELSE [checked_services |-> Append(r.checked_services, info),
                         stopped_services |->
                           IF st[n] # "active" /\ n \in critical_services
                             THEN Append(r.stopped_services, info)
                             ELSE r.stopped_services]
       IN  CheckKeyServices(next, Tail(names), st)

\* _check_permissions: the critical paths that exist are recorded; nothing is
\* ever put into changed_permissions.
critical_paths ==
  <<"/etc/passwd", "/etc/shadow", "/etc/sudoers", "/etc/ssh/sshd_config", "/root", "/home">>
PermissionHosts == {Range(critical_paths), {"/etc/passwd", "/root"}, {}}
PermissionInfo(path) ==
  [path |-> path, severity |-> IF path \in {"/etc/shadow", "/root"} THEN "major" ELSE "minor"]
EmptyPermissionResults == [checked_paths |-> <<>>, changed_permissions |-> <<>>]

\* _execute_custom_checks: a check is [type, command, expected, severity]
\* (command, expected: whether the key is given); the command's output is the
\* expected one ("same"), another one ("differs"), or running it raises.
CustomCheck(type, command, expected, severity) ==
  [type |-> type, command |-> command, expected |-> expected, severity |-> severity]
CustomChecksPool ==
  {<<>>,
   <<CustomCheck("command", TRUE, TRUE, "critical")>>,
   <<CustomCheck("command", TRUE, TRUE, "high")>>,
   <<CustomCheck("command", TRUE, FALSE, "major")>>,
   <<CustomCheck("file", FALSE, FALSE, "minor")>>,
   <<CustomCheck("command", TRUE, TRUE, "major"), CustomCheck("command", TRUE, TRUE, "minor")>>}
CommandOutcomes == {"same", "differs", "raises"}
CheckResult(drift_detected, severity) ==
  [drift_detected |-> drift_detected, severity |-> severity]

RECURSIVE RunCustomChecks(_, _, _, _)
RunCustomChecks(r, checks, out, i) ==
  IF i > Len(checks) THEN r
  ELSE LET c == checks[i]
           next == IF c.type = "command" /\ c.command
                     THEN IF out[i] = "raises"
                            THEN Append(r, CheckResult(FALSE, "minor"))
                            ELSE Append(r, CheckResult(c.expected /\ out[i] = "differs",
                                                       c.severity))
                     ELSE r
       IN  RunCustomChecks(next, checks, out, i + 1)

NoAnalysis ==
  [configuration_files |-> EmptyFileResults,
   services |-> EmptyServiceResults,
   permissions |-> EmptyPermissionResults,
   custom_checks |-> [check_results |-> <<>>]]

\* drift_score and drift_threshold are kept in tenths (round(score, 1)).
NoSummary ==
  [total_checks |-> 0, drift_detected |-> 0, critical_drift |-> 0, major_drift |-> 0,
   minor_drift |-> 0, drift_score |-> 0, compliance_status |-> "unknown"]

CountSeverity(items, sev) == Cardinality({i \in DOMAIN items : items[i].severity = sev})
Drifted(check_results) == SelectSeq(check_results, LAMBDA c : c.drift_detected)

\* The else branches that add to minor_count: everything that is not counted
\* as critical or major (lines 712-717, 751-756), or as major (lines 727-730).
MinorOnly(items) == CountSeverity(items, "minor")
OtherThanCriticalMajor(items) ==
  Len(items) - CountSeverity(items, "critical") - CountSeverity(items, "major")
OtherThanMajor(items) == Len(items) - CountSeverity(items, "major")

\* round(x, 1) of x = num / den >= 0, in tenths, ties to even.
Round1(num, den) ==
  LET q == (10 * num) \div den
      r == (10 * num) % den
  IN  IF 2 * r < den THEN q
      ELSE IF 2 * r > den THEN q + 1
      ELSE IF q % 2 = 0 THEN q ELSE q + 1

\* The score without the max(0, ...) of lines 769 and 774.
ScoreNumUnclamped(total, drift, weight) ==
  IF total > 0 THEN 100 * total - 100 * drift - 5 * weight * total ELSE 100

\* Lines 767-777: the score as the fraction num / den before rounding.
\* 100 - drift_count / total_checks * 100, less 5 for each unit of severity
\* weight, never below 0.
ScoreNum(total, drift, weight) ==
  IF total > 0
    THEN Max(0, Max(0, 100 * total - 100 * drift) - 5 * weight * total)
    ELSE 100
ScoreDen(total) == IF total > 0 THEN total ELSE 1

\* _calculate_drift_metrics (lines 686-793) as a function of drift_analysis.
DriftMetrics(a) ==
  LET f == a.configuration_files
      drifted_files == f.modified_files \o f.new_files \o f.deleted_files
      stopped == a.services.stopped_services
      perms == a.permissions.changed_permissions
      custom == Drifted(a.custom_checks.check_results)
      total == Len(f.checked_files) + Len(drifted_files)
                 + Len(a.services.checked_services)
                 + Len(a.permissions.checked_paths)
                 + Len(a.custom_checks.check_results)
      drift == Len(drifted_files) + Len(stopped) + Len(perms) + Len(custom)
      critical == CountSeverity(drifted_files, "critical") + CountSeverity(custom, "critical")
      major == CountSeverity(drifted_files, "major") + CountSeverity(stopped, "major")
                 + CountSeverity(perms, "major") + CountSeverity(custom, "major")
      minor == OtherThanCriticalMajor(drifted_files) + OtherThanMajor(stopped)
                 + OtherThanMajor(perms) + OtherThanCriticalMajor(custom)
      weight == critical * 3 + major * 2 + minor
      num == ScoreNum(total, drift, weight)
      den == ScoreDen(total)
  IN  [total_checks |-> total, drift_detected |-> drift, critical_drift |-> critical,
       major_drift |-> major, minor_drift |-> minor,
       drift_score |-> Round1(num, den),
       compliance_status |->
         IF num >= 95 * den THEN "excellent"
         ELSE IF num >= 85 * den THEN "good"
         ELSE IF num >= 70 * den THEN "moderate"
         ELSE IF num >= 50 * den THEN "poor"
         ELSE "critical"]

\* should_fail where: the critical-drift test is missing.
ShouldFailScoreOnly(args, summary) ==
  args.fail_on_drift /\ summary.drift_score < 1000 - args.drift_threshold

\* _should_fail(args) (lines 1002-1019).
should_fail(args, summary) ==
  IF ~args.fail_on_drift THEN FALSE
  ELSE IF summary.drift_score < 1000 - args.drift_threshold THEN TRUE
  ELSE summary.critical_drift > 0

NoDriftArgs ==
  [config_paths |-> <<>>, ignore_patterns |-> <<>>, custom_checks |-> <<>>,
   fail_on_drift |-> FALSE, drift_threshold |-> 50]
NoDriftResult == [status |-> "none", failed |-> FALSE]

\* The detector is not in use.
DetectorIdle ==
  /\ dargs = NoDriftArgs
  /\ dhost = [q \in Paths |-> MissingFile]
  /\ drift_analysis = NoAnalysis
  /\ drift_summary = NoSummary
  /\ dresult = NoDriftResult
  /\ dpc = "off"


\* ==================================================== the network validator
\* gb_network_validator.py. A device type is a text, one character per element.
MaxRules == 2
router == <<"r", "o", "u", "t", "e", "r">>
firewall == <<"f", "i", "r", "e", "w", "a", "l", "l">>
dns_server == <<"d", "n", "s", "_", "s", "e", "r", "v", "e", "r">>
linux == <<"l", "i", "n", "u", "x">>
windows == <<"w", "i", "n", "d", "o", "w", "s">>
generic == <<"g", "e", "n", "e", "r", "i", "c">>
DeviceTypes ==
  {generic, router, firewall, dns_server, linux, windows,
   <<"L", "i", "n", "u", "x">> \o <<"-">> \o <<"R">> \o Tail(router)}

\* str.lower(), for the capitals the device types above use.
Lower(t) == [i \in DOMAIN t |-> CASE t[i] = "L" -> "l" [] t[i] = "R" -> "r" [] OTHER -> t[i]]

base_rules == <<"connectivity_test", "dns_resolution_test", "port_accessibility_test">>
\* device_specific_rules, in the order of the dict.
device_specific_rules ==
  << [key |-> router,
      rules |-> <<"interface_status_check", "routing_table_validation",
                  "firewall_rules_check", "dhcp_service_validation">>],
     [key |-> firewall,
      rules |-> <<"rule_syntax_validation", "policy_compliance_check",
                  "logging_configuration_check">>],
     [key |-> dns_server,
      rules |-> <<"dns_service_validation", "zone_file_validation", "recursive_query_test">>],
     [key |-> linux,
      rules |-> <<"service_status_check", "configuration_file_validation",
                  "security_baseline_check">>],
     [key |-> windows,
      rules |-> <<"service_status_check", "registry_validation", "security_policy_check">>] >>

\* _get_default_validation_rules(device_type): the base rules, then the rules
\* of the first device key that the device type contains.
get_default_validation_rules(device_type) ==
  LET hits == {i \in DOMAIN device_specific_rules :
                 Contains(Lower(device_type), Lower(device_specific_rules[i].key))}
  IN  IF hits = {} THEN base_rules
      ELSE base_rules \o device_specific_rules[CHOOSE i \in hits : \A j \in hits : i <= j].rules

\* The keys of rule_methods in _execute_validation_rule; the last nine are
\* placeholders that return a result with status skipped.
rule_methods ==
  {"connectivity_test", "dns_resolution_test", "port_accessibility_test",
   "interface_status_check", "routing_table_validation", "firewall_rules_check",
   "dhcp_service_validation", "service_status_check", "configuration_file_validation",
   "security_baseline_check", "dns_service_validation", "zone_file_validation"}

\* _execute_validation_rule where a rule that is not in rule_methods raises.
RuleOutcomesUnknownRaises(rule, args) ==
  CASE rule = "connectivity_test" -> {"passed", "failed", "error"}
    [] rule = "dns_resolution_test" -> {"passed", "failed"}
    [] rule = "port_accessibility_test" ->
         IF args.test_ports = "scalar" THEN {"raised"} ELSE {"passed", "warning", "failed"}
    [] rule \in rule_methods -> {"skipped"}
    [] OTHER -> {"raised"}

\* What _execute_validation_rule can come to for the rule: the status of the
\* result it returns, or "raised". _test_port_accessibility iterates over
\* connection_params.test_ports outside any try, so a scalar there (test_ports:
\* 22) raises TypeError.
RuleOutcomes(rule, args) ==
  CASE rule = "connectivity_test" -> {"passed", "failed", "error"}
    [] rule = "dns_resolution_test" -> {"passed", "failed"}
    [] rule = "port_accessibility_test" ->
         IF args.test_ports = "scalar" THEN {"raised"} ELSE {"passed", "warning", "failed"}
    [] rule \in rule_methods -> {"skipped"}  \* the placeholders, lines 508-599
    [] OTHER -> {"skipped"}                  \* not in rule_methods, lines 274-280

\* A custom test as the task gives it: a mapping with a name, a type and
\* possibly a command, or something that is not a mapping.
CustomTest(name, type, command) ==
  [mapping |-> TRUE, name |-> name, type |-> type, command |-> command]
MalformedTest == [mapping |-> FALSE, name |-> "", type |-> "", command |-> FALSE]
CustomTestsPool ==
  {<<>>,
   <<CustomTest("t1", "command", TRUE)>>,
   <<CustomTest("t1", "command", FALSE), CustomTest("t2", "http", FALSE)>>,
   <<MalformedTest, CustomTest("t1", "command", TRUE)>>}

\* _execute_custom_test(test_config, args), and the test_config.get of line 239.
CustomOutcomes(test) ==
  IF ~test.mapping THEN {"raised"}
  ELSE IF test.type = "command"
    THEN IF ~test.command THEN {"error"} ELSE {"passed", "failed", "error"}
    ELSE {"skipped"}

NoValidationSummary ==
  [total_tests |-> 0, passed_tests |-> 0, failed_tests |-> 0, warnings |-> 0, errors |-> 0]

\* _update_summary_stats(test_result)
update_summary_stats(summary, status) ==
  LET counted == [summary EXCEPT !.total_tests = @ + 1]
  IN  CASE status = "passed" -> [counted EXCEPT !.passed_tests = @ + 1]
        [] status = "failed" -> [counted EXCEPT !.failed_tests = @ + 1]
        [] status = "warning" -> [counted EXCEPT !.warnings = @ + 1]
        [] OTHER -> counted

NoValidatorArgs ==
  [device_type |-> generic, validation_rules |-> base_rules, test_ports |-> "unset",
   custom_tests |-> <<>>, fail_on_error |-> TRUE]
NoValidatorResult == [status |-> "none", failed |-> FALSE]
NoResults == [n \in {} |-> "none"]

\* The validator is not in use.
ValidatorIdle ==
  /\ vargs = NoValidatorArgs
  /\ validation_summary = NoValidationSummary
  /\ detailed_results = NoResults
  /\ vlog = <<>>
  /\ vresult = NoValidatorResult
  /\ vpc = "off"


Running == {"exists_cache", "dl_bin", "dl_bin_w", "dl_sum", "dl_sum_w", "parse",
            "hash1", "redl", "redl_w", "hash2", "check_dest", "makedirs",
            "replace", "chmod", "exit"}
Terminal == {"done", "failed", "crashed"}

\* n counts the calls of exit_json and fail_json the invocation has made.
NoResult == [status |-> "none", msg |-> "", changed |-> FALSE, sha |-> <<>>, n |-> 0]
NoPrev == [status |-> "none", msg |-> "", changed |-> FALSE, destOk |-> FALSE,
           startOk |-> FALSE]
\* Errors raised by the host or the network rather than decided by the code.
EnvErrors == {"URLError", "ContentTooShort", "EIO", "EACCES", "EXDEV", "EPERM"}

\* ------------------------------------------------------------ helpers
Goto(p, l) == pc' = [pc EXCEPT ![p] = l]
Logged(p, e) == log' = [log EXCEPT ![p] = Append(@, e)]
Wrote(p, f) == writes' = [writes EXCEPT ![p] = @ \cup {f}]

\* An invocation that is not inside download() has no file open for writing.
NoFd == [at |-> "none", clean |-> TRUE]

\* open(f, 'wb') by p truncates f: every other invocation still writing f has
\* lost what it had written so far.
Opened(p, f) ==
  wfd' = [q \in Procs |->
            IF q = p THEN [at |-> f, clean |-> TRUE]
            ELSE IF wfd[q].at = f THEN [wfd[q] EXCEPT !.clean = FALSE]
            ELSE wfd[q]]

\* p's download returns. If nothing truncated the file after p opened it, p
\* has written all of it, and what another writer lost is there again.
Closed(p) ==
  wfd' = [q \in Procs |->
            IF q = p THEN NoFd
            ELSE IF wfd[q].at = wfd[p].at /\ wfd[p].clean
                   THEN [wfd[q] EXCEPT !.clean = TRUE]
            ELSE wfd[q]]

\* p's download breaks off, or p is killed: its descriptor is closed.
Aborted(p) == wfd' = [wfd EXCEPT ![p] = NoFd]

\* os.replace(cache_file, dest): a descriptor follows its file to the new
\* name; the file that was at dest has no name any more.
Renamed ==
  wfd' = [q \in Procs |->
            IF wfd[q].at = "cache" THEN [wfd[q] EXCEPT !.at = "dest"]
            ELSE IF wfd[q].at = "dest" THEN [wfd[q] EXCEPT !.at = "orphan"]
            ELSE wfd[q]]

\* What a download that returns has left in its file.
Written(p, whole, part) == IF wfd[p].clean THEN {whole} ELSE {part, whole}

\* History: p writes a file other invocations use; those that have begun
\* have been raced.
Disturbed(p) ==
  raced' = [q \in Procs |-> raced[q] \/ (q # p /\ pc[q] # "idle")]

\* Mutant of fail_json: the exception is not caught and reported; the process
\* dies with a traceback and no result.
UncaughtException(p, msg) ==
  /\ Goto(p, "crashed")
  /\ UNCHANGED result

\* module.fail_json(msg=...): the invocation ends, reporting failure.
fail_json(p, msg) ==
  /\ Goto(p, "failed")
  /\ result' = [result EXCEPT ![p] =
                  [status |-> "failed", msg |-> msg, changed |-> FALSE, sha |-> <<>>,
                   n |-> result[p].n + 1]]

\* What the next run remembers of a run that has just reported.
Summary(p) ==
  [status |-> result[p].status, msg |-> result[p].msg, changed |-> result[p].changed,
   destOk |-> dest_file.ex /\ sha256sum(dest_file.c) = expected_sha[p],
   startOk |-> dest0[p].ex /\ sha256sum(dest0[p].c) = expected_sha[p]]

Init ==
  /\ url \in Urls
  /\ dest \in Dests
  /\ dirs \in DirStates
  /\ remoteBin = 1
  /\ remoteManifest = [up |-> TRUE, text |-> GoodManifest(url, 1)]
  /\ cache_file = NoFile
  /\ checksum_file = [ex |-> FALSE, text |-> <<>>]
  /\ dest_file = NoFile
  /\ pc = [p \in Procs |-> "idle"]
  /\ expected_sha = [p \in Procs |-> <<>>]
  /\ actual_sha = [p \in Procs |-> <<>>]
  /\ changed = [p \in Procs |-> FALSE]
  /\ result = [p \in Procs |-> NoResult]
  /\ dest0 = [p \in Procs |-> NoFile]
  /\ cache0 = [p \in Procs |-> NoFile]
  /\ log = [p \in Procs |-> <<>>]
  /\ writes = [p \in Procs |-> {}]
  /\ prev = NoPrev
  /\ wfd = [p \in Procs |-> NoFd]
  /\ raced = [p \in Procs |-> FALSE]
  /\ DetectorIdle
  /\ ValidatorIdle
  /\ ltext = <<>> /\ lname = <<>> /\ lres = NotFound

\* --------------------------------------------------- one invocation of main()
\* Lines 21-36: the module is invoked; its locals are fresh.
Begin(p) ==
  /\ pc[p] \in {"idle"} \cup Terminal
  /\ Goto(p, "exists_cache")
  /\ expected_sha' = [expected_sha EXCEPT ![p] = <<>>]
  /\ actual_sha' = [actual_sha EXCEPT ![p] = <<>>]
  /\ changed' = [changed EXCEPT ![p] = FALSE]
  /\ result' = [result EXCEPT ![p] = NoResult]
  /\ dest0' = [dest0 EXCEPT ![p] = dest_file]
  /\ cache0' = [cache0 EXCEPT ![p] = cache_file]
  /\ log' = [log EXCEPT ![p] = <<>>]
  /\ writes' = [writes EXCEPT ![p] = {}]
  /\ prev' = IF pc[p] \in {"done", "failed"} THEN Summary(p) ELSE NoPrev
  /\ wfd' = [wfd EXCEPT ![p] = NoFd]
  /\ raced' = [raced EXCEPT ![p] = FALSE]
  /\ UNCHANGED <<inputs, remote, fs, lookup, plugins>>

\* Mutant of ExistsCache: the cache file is taken to be there; the binary is
\* never fetched before verification.
ExistsCacheAssumed(p) ==
  /\ pc[p] = "exists_cache"
  /\ Goto(p, "dl_sum")
  /\ UNCHANGED <<inputs, remote, fs, expected_sha, actual_sha, changed, result,
                 start0, log, writes, prev, lookup, shared, plugins>>

\* Mutant of ExistsCache: the cache file is not looked at; the binary is
\* fetched in every run.
ExistsCacheIgnored(p) ==
  /\ pc[p] = "exists_cache"
  /\ Goto(p, "dl_bin")
  /\ UNCHANGED <<inputs, remote, fs, expected_sha, actual_sha, changed, result,
                 start0, log, writes, prev, lookup, shared, plugins>>

\* Line 40: if not os.path.exists(cache_file)
ExistsCache(p) ==
  /\ pc[p] = "exists_cache"
  /\ Goto(p, IF cache_file.ex THEN "dl_sum" ELSE "dl_bin")
  /\ UNCHANGED <<inputs, remote, fs, expected_sha, actual_sha, changed, result,
                 start0, log, writes, prev, lookup, shared, plugins>>

\* download(url, cache_file), first half: urlretrieve connects, and on success
\* opens the cache file for writing, which truncates it (a new file gets the
\* default mode, an existing one keeps its mode).
FetchBinOpen(p, here, writing) ==
  /\ pc[p] = here
  /\ Logged(p, "fetch_bin")
  /\ IF remoteBin = 0
       THEN /\ fail_json(p, "URLError")
            /\ UNCHANGED <<cache_file, writes, shared>>
       ELSE /\ cache_file' = File(Partial, IF cache_file.ex THEN cache_file.m ELSE Mode644)
            /\ Wrote(p, "cache")
            /\ Opened(p, "cache")
            /\ Disturbed(p)
            /\ Goto(p, writing)
            /\ UNCHANGED result
  /\ UNCHANGED <<inputs, remote, checksum_file, dest_file, dirs, expected_sha,
                 actual_sha, changed, start0, prev, lookup, plugins>>

\* download(url, cache_file), second half: the body is written through, or the
\* transfer breaks off and leaves the truncated file behind. The writes go to
\* the file that was opened, also when a rename has since moved it to dest.
FetchBinWrite(p, writing, next) ==
  /\ pc[p] = writing
  /\ \E broken \in BOOLEAN :
       IF broken
         THEN /\ fail_json(p, "ContentTooShort")
              /\ Aborted(p)
              /\ UNCHANGED <<cache_file, dest_file, writes, raced>>
         ELSE \E c \in Written(p, remoteBin, Partial) :
              /\ cache_file' = IF wfd[p].at = "cache"
                                 THEN [cache_file EXCEPT !.c = c] ELSE cache_file
              /\ dest_file' = IF wfd[p].at = "dest"
                                THEN [dest_file EXCEPT !.c = c] ELSE dest_file
              /\ writes' = IF wfd[p].at = "dest"
                             THEN [writes EXCEPT ![p] = @ \cup {"dest"}] ELSE writes
              /\ Closed(p)
              /\ Disturbed(p)
              /\ Goto(p, next)
              /\ UNCHANGED result
  /\ UNCHANGED <<inputs, remote, checksum_file, dirs, expected_sha,
                 actual_sha, changed, start0, log, prev, lookup, plugins>>

\* Line 41: download(url, cache_file) when the cache file is absent.
DownloadCache(p) == FetchBinOpen(p, "dl_bin", "dl_bin_w")
DownloadCacheWrite(p) == FetchBinWrite(p, "dl_bin_w", "dl_sum")

\* Mutant of DownloadChecksum: the manifest file is treated like the binary
\* cache, fetched only when it is absent.
DownloadChecksumIfAbsent(p) ==
  /\ pc[p] = "dl_sum"
  /\ IF checksum_file.ex
       THEN /\ Goto(p, "parse")
            /\ UNCHANGED <<checksum_file, writes, shared, result, log>>
       ELSE /\ Logged(p, "fetch_sum")
            /\ remoteManifest.up
            /\ checksum_file' = [ex |-> TRUE, text |-> <<>>]
            /\ Wrote(p, "checksum")
            /\ Opened(p, "checksum")
            /\ Disturbed(p)
            /\ Goto(p, "dl_sum_w")
            /\ UNCHANGED result
  /\ UNCHANGED <<inputs, remote, cache_file, dest_file, dirs, expected_sha,
                 actual_sha, changed, start0, prev, lookup, plugins>>

\* Mutant of DownloadChecksum: a manifest fetch that cannot connect is tried a
\* second time before the run gives up.
DownloadChecksumRetry(p) ==
  /\ pc[p] = "dl_sum"
  /\ Logged(p, "fetch_sum")
  /\ IF ~remoteManifest.up
       THEN /\ IF \E i \in DOMAIN log[p] : log[p][i] = "fetch_sum"
                 THEN fail_json(p, "URLError")
                 ELSE UNCHANGED <<pc, result>>
            /\ UNCHANGED <<checksum_file, writes, shared>>
       ELSE /\ checksum_file' = [ex |-> TRUE, text |-> <<>>]
            /\ Wrote(p, "checksum")
            /\ Opened(p, "checksum")
            /\ Disturbed(p)
            /\ Goto(p, "dl_sum_w")
            /\ UNCHANGED result
  /\ UNCHANGED <<inputs, remote, cache_file, dest_file, dirs, expected_sha,
                 actual_sha, changed, start0, prev, lookup, plugins>>

\* Line 45: download(checksum_url, checksum_file), unconditionally.
DownloadChecksum(p) ==
  /\ pc[p] = "dl_sum"
  /\ Logged(p, "fetch_sum")
  /\ IF ~remoteManifest.up
       THEN /\ fail_json(p, "URLError")
            /\ UNCHANGED <<checksum_file, writes, shared>>
       ELSE /\ checksum_file' = [ex |-> TRUE, text |-> <<>>]
            /\ Wrote(p, "checksum")
            /\ Opened(p, "checksum")
            /\ Disturbed(p)
            /\ Goto(p, "dl_sum_w")
            /\ UNCHANGED result
  /\ UNCHANGED <<inputs, remote, cache_file, dest_file, dirs, expected_sha,
                 actual_sha, changed, start0, prev, lookup, plugins>>

DownloadChecksumWrite(p) ==
  /\ pc[p] = "dl_sum_w"
  /\ \E broken \in BOOLEAN :
       IF broken
         THEN /\ fail_json(p, "ContentTooShort")
              /\ Aborted(p)
              /\ UNCHANGED <<checksum_file, raced>>
         ELSE \E t \in Written(p, remoteManifest.text, <<>>) :
              /\ checksum_file' = [ex |-> TRUE, text |-> t]
              /\ Closed(p)
              /\ Disturbed(p)
              /\ Goto(p, "parse")
              /\ UNCHANGED result
  /\ UNCHANGED <<inputs, remote, cache_file, dest_file, dirs, expected_sha,
                 actual_sha, changed, start0, log, writes, prev, lookup, plugins>>

\* Mutant of Parse: the check of line 55 is missing, so a manifest without an
\* entry lets the run go on with expected_sha = None.
ParseNoCheck(p) ==
  /\ pc[p] = "parse"
  /\ Logged(p, "parse")
  /\ LET r == ExpectedSha(checksum_file.text, Basename(url))
     IN  /\ expected_sha' = [expected_sha EXCEPT ![p] = r.sha]
         /\ Goto(p, "hash1")
  /\ UNCHANGED <<inputs, remote, fs, actual_sha, changed, result, start0, writes,
                 prev, lookup, shared, plugins>>

\* Lines 48-56: scan the checksum file for the basename of url; fail_json
\* ends the invocation when no line names it.
Parse(p) ==
  /\ pc[p] = "parse"
  /\ Logged(p, "parse")
  /\ IF ~checksum_file.ex
       THEN /\ fail_json(p, "ENOENT")
            /\ UNCHANGED expected_sha
       ELSE LET r == ExpectedSha(checksum_file.text, Basename(url))
            IN  IF r.kind = "found"
                  THEN /\ expected_sha' = [expected_sha EXCEPT ![p] = r.sha]
                       /\ Goto(p, "hash1")
                       /\ UNCHANGED result
                  ELSE /\ fail_json(p, IF r.kind = "none" THEN "notfound" ELSE "IndexError")
                       /\ UNCHANGED expected_sha
  /\ UNCHANGED <<inputs, remote, fs, actual_sha, changed, start0, writes, prev, lookup, shared, plugins>>

\* Mutant of Hash1: the cached file is hashed but the comparison of line 59
\* is missing; whatever is in the cache goes on to the install.
Hash1NoVerify(p) ==
  /\ pc[p] = "hash1"
  /\ cache_file.ex
  /\ actual_sha' = [actual_sha EXCEPT ![p] = sha256sum(cache_file.c)]
  /\ Goto(p, "check_dest")
  /\ UNCHANGED <<inputs, remote, fs, expected_sha, changed, result, start0, log, writes,
                 prev, lookup, shared, plugins>>

\* Lines 58-59: actual_sha = sha256sum(cache_file); compare with expected_sha.
Hash1(p) ==
  /\ pc[p] = "hash1"
  /\ \E eio \in BOOLEAN :
       IF eio \/ ~cache_file.ex
         THEN /\ fail_json(p, IF cache_file.ex THEN "EIO" ELSE "ENOENT")
              /\ UNCHANGED <<actual_sha, log>>
         ELSE /\ actual_sha' = [actual_sha EXCEPT ![p] = sha256sum(cache_file.c)]
              /\ IF sha256sum(cache_file.c) = expected_sha[p]
                   THEN Goto(p, "check_dest") /\ Logged(p, "match")
                   ELSE Goto(p, "redl") /\ Logged(p, "mismatch")
              /\ UNCHANGED result
  /\ UNCHANGED <<inputs, remote, fs, expected_sha, changed, start0, writes, prev, lookup, shared, plugins>>

\* Line 61: download(url, cache_file) again, after the mismatch.
Redownload(p) == FetchBinOpen(p, "redl", "redl_w")
RedownloadWrite(p) == FetchBinWrite(p, "redl_w", "hash2")

\* Mutant of Hash2: the second mismatch does not end the run (fail_json of
\* line 64 missing); the install goes ahead.
Hash2NoFail(p) ==
  /\ pc[p] = "hash2"
  /\ cache_file.ex
  /\ actual_sha' = [actual_sha EXCEPT ![p] = sha256sum(cache_file.c)]
  /\ Goto(p, "check_dest")
  /\ Logged(p, IF sha256sum(cache_file.c) = expected_sha[p] THEN "match" ELSE "mismatch")
  /\ UNCHANGED <<inputs, remote, fs, expected_sha, changed, result, start0, writes,
                 prev, lookup, shared, plugins>>

\* Mutant of Hash2: the retry is a loop, a second mismatch fetches again.
Hash2Retry(p) ==
  /\ pc[p] = "hash2"
  /\ cache_file.ex
  /\ actual_sha' = [actual_sha EXCEPT ![p] = sha256sum(cache_file.c)]
  /\ IF sha256sum(cache_file.c) = expected_sha[p]
       THEN Goto(p, "check_dest") /\ Logged(p, "match")
       ELSE Goto(p, "redl") /\ Logged(p, "mismatch")
  /\ UNCHANGED <<inputs, remote, fs, expected_sha, changed, result, start0, writes,
                 prev, lookup, shared, plugins>>

\* Lines 62-64: hash the cache file again; a second mismatch is fail_json.
Hash2(p) ==
  /\ pc[p] = "hash2"
  /\ \E eio \in BOOLEAN :
       IF eio \/ ~cache_file.ex
         THEN /\ fail_json(p, IF cache_file.ex THEN "EIO" ELSE "ENOENT")
              /\ UNCHANGED <<actual_sha, log>>
         ELSE /\ actual_sha' = [actual_sha EXCEPT ![p] = sha256sum(cache_file.c)]
              /\ IF sha256sum(cache_file.c) = expected_sha[p]
                   THEN Goto(p, "check_dest") /\ Logged(p, "match") /\ UNCHANGED result
                   ELSE fail_json(p, "mismatch") /\ Logged(p, "mismatch")
  /\ UNCHANGED <<inputs, remote, fs, expected_sha, changed, start0, writes, prev, lookup, shared, plugins>>

\* Mutant of CheckDest: an existing destination is taken as installed without
\* comparing its digest.
CheckDestExistsOnly(p) ==
  /\ pc[p] = "check_dest"
  /\ changed' = [changed EXCEPT ![p] = FALSE]
  /\ Goto(p, IF ~dest_file.ex THEN "makedirs" ELSE "exit")
  /\ UNCHANGED <<inputs, remote, fs, expected_sha, actual_sha, result, start0, log,
                 writes, prev, lookup, shared, plugins>>

\* Mutant of CheckDest: no idempotence check, every verified run installs.
CheckDestAlways(p) ==
  /\ pc[p] = "check_dest"
  /\ changed' = [changed EXCEPT ![p] = FALSE]
  /\ Goto(p, "makedirs")
  /\ UNCHANGED <<inputs, remote, fs, expected_sha, actual_sha, result, start0, log,
                 writes, prev, lookup, shared, plugins>>

\* Mutant of CheckDest: a destination with the right digest but without mode
\* 0755 is sent to the chmod of line 71.
CheckDestRepairMode(p) ==
  /\ pc[p] = "check_dest"
  /\ changed' = [changed EXCEPT ![p] = FALSE]
  /\ Goto(p, IF ~dest_file.ex \/ sha256sum(dest_file.c) # expected_sha[p]
                THEN "makedirs"
                ELSE IF dest_file.m # Mode755 THEN "chmod" ELSE "exit")
  /\ UNCHANGED <<inputs, remote, fs, expected_sha, actual_sha, result, start0, log,
                 writes, prev, lookup, shared, plugins>>

\* Lines 67-68: changed = False;
\* if not os.path.exists(dest) or sha256sum(dest) != expected_sha
CheckDest(p) ==
  /\ pc[p] = "check_dest"
  /\ changed' = [changed EXCEPT ![p] = FALSE]
  /\ \E eio \in BOOLEAN :
       IF eio /\ dest_file.ex
         THEN fail_json(p, "EIO")
         ELSE /\ Goto(p, IF ~dest_file.ex \/ sha256sum(dest_file.c) # expected_sha[p]
                           THEN "makedirs" ELSE "exit")
              /\ UNCHANGED result
  /\ UNCHANGED <<inputs, remote, fs, expected_sha, actual_sha, start0, log, writes,
                 prev, lookup, shared, plugins>>

\* Line 69: os.makedirs(os.path.dirname(dest), exist_ok=True). The directory
\* part of a bare file name is '', and os.makedirs('') raises FileNotFoundError.
Makedirs(p) ==
  /\ pc[p] = "makedirs"
  /\ Logged(p, "makedirs")
  /\ LET d == Dirname(dest)
     IN  \E denied \in BOOLEAN :
           IF d = <<>>
             THEN fail_json(p, "ENOENT") /\ UNCHANGED <<dirs, writes>>
             ELSE IF d \in dirs
               THEN Goto(p, "replace") /\ UNCHANGED <<dirs, writes, result>>
               ELSE IF denied
                 THEN fail_json(p, "EACCES") /\ UNCHANGED <<dirs, writes>>
                 ELSE /\ dirs' = dirs \cup Ancestors(d)
                      /\ Wrote(p, "dirs")
                      /\ Goto(p, "replace")
                      /\ UNCHANGED result
  /\ UNCHANGED <<inputs, remote, cache_file, checksum_file, dest_file, expected_sha,
                 actual_sha, changed, start0, prev, lookup, shared, plugins>>

\* Mutant of Replace: a copy in place of the rename: the destination is opened
\* and truncated first, and filled in a second step.
ReplaceByCopy(p) ==
  /\ pc[p] = "replace"
  /\ cache_file.ex
  /\ IF "copying" \notin writes[p]
       THEN /\ dest_file' = File(Partial, IF dest_file.ex THEN dest_file.m ELSE Mode644)
            /\ writes' = [writes EXCEPT ![p] = @ \cup {"copying", "dest"}]
            /\ UNCHANGED pc
       ELSE /\ dest_file' = [dest_file EXCEPT !.c = cache_file.c]
            /\ Goto(p, "chmod")
            /\ UNCHANGED writes
  /\ UNCHANGED <<inputs, remote, cache_file, checksum_file, dirs, expected_sha,
                 actual_sha, changed, result, start0, log, prev, lookup, shared, plugins>>

\* Mutant of Replace: the destination is replaced atomically by a copy of the
\* cache file, which stays in the cache.
ReplaceKeepCache(p) ==
  /\ pc[p] = "replace"
  /\ Logged(p, "replace")
  /\ cache_file.ex
  /\ dest_file' = cache_file
  /\ Wrote(p, "dest")
  /\ Goto(p, "chmod")
  /\ UNCHANGED <<inputs, remote, cache_file, checksum_file, dirs, expected_sha,
                 actual_sha, changed, result, start0, prev, lookup, shared, plugins>>

\* Mutant of Replace: when the rename fails the cache file is copied onto the
\* destination instead, and the install goes on.
ReplaceCopyFallback(p) ==
  /\ pc[p] = "replace"
  /\ Logged(p, "replace")
  /\ cache_file.ex
  /\ \E xdev \in BOOLEAN :
       /\ dest_file' = cache_file
       /\ cache_file' = IF xdev THEN cache_file ELSE NoFile
       /\ writes' = [writes EXCEPT ![p] = @ \cup (IF xdev THEN {"dest"} ELSE {"cache", "dest"})]
  /\ Goto(p, "chmod")
  /\ UNCHANGED <<inputs, remote, checksum_file, dirs, expected_sha, actual_sha,
                 changed, result, start0, prev, lookup, shared, plugins>>

\* Line 70: os.replace(cache_file, dest): an atomic rename, content and
\* permission bits move together; across filesystems it raises.
Replace(p) ==
  /\ pc[p] = "replace"
  /\ Logged(p, "replace")
  /\ \E xdev \in BOOLEAN :
       IF xdev \/ ~cache_file.ex
         THEN /\ fail_json(p, IF cache_file.ex THEN "EXDEV" ELSE "ENOENT")
              /\ UNCHANGED <<cache_file, dest_file, writes, shared>>
         ELSE /\ dest_file' = cache_file
              /\ cache_file' = NoFile
              /\ writes' = [writes EXCEPT ![p] = @ \cup {"cache", "dest"}]
              /\ Renamed
              /\ Disturbed(p)
              /\ Goto(p, "chmod")
              /\ UNCHANGED result
  /\ UNCHANGED <<inputs, remote, checksum_file, dirs, expected_sha, actual_sha,
                 changed, start0, prev, lookup, plugins>>

\* Mutant of Chmod: the permission bits are left as the rename brought them.
ChmodSkipped(p) ==
  /\ pc[p] = "chmod"
  /\ Logged(p, "chmod")
  /\ changed' = [changed EXCEPT ![p] = TRUE]
  /\ Goto(p, "exit")
  /\ UNCHANGED <<inputs, remote, fs, expected_sha, actual_sha, result, start0, writes,
                 prev, lookup, shared, plugins>>

\* Mutant of Chmod: line 72 is missing, changed stays False after an install.
ChmodNoFlag(p) ==
  /\ pc[p] = "chmod"
  /\ Logged(p, "chmod")
  /\ dest_file.ex
  /\ dest_file' = [dest_file EXCEPT !.m = Mode755]
  /\ Wrote(p, "dest")
  /\ Goto(p, "exit")
  /\ UNCHANGED <<inputs, remote, cache_file, checksum_file, dirs, expected_sha,
                 actual_sha, changed, result, start0, prev, lookup, shared, plugins>>

\* Lines 71-72: os.chmod(dest, 0o755); changed = True
Chmod(p) ==
  /\ pc[p] = "chmod"
  /\ Logged(p, "chmod")
  /\ \E eperm \in BOOLEAN :
       IF eperm \/ ~dest_file.ex
         THEN /\ fail_json(p, IF dest_file.ex THEN "EPERM" ELSE "ENOENT")
              /\ UNCHANGED <<dest_file, changed, writes, raced>>
         ELSE /\ dest_file' = [dest_file EXCEPT !.m = Mode755]
              /\ changed' = [changed EXCEPT ![p] = TRUE]
              /\ Wrote(p, "dest")
              /\ Disturbed(p)
              /\ Goto(p, "exit")
              /\ UNCHANGED result
  /\ UNCHANGED <<inputs, remote, cache_file, checksum_file, dirs, expected_sha,
                 actual_sha, start0, prev, lookup, wfd, plugins>>

\* Mutant of ExitJson: every success is reported with changed=True.
ExitJsonAlwaysChanged(p) ==
  /\ pc[p] = "exit"
  /\ Goto(p, "done")
  /\ result' = [result EXCEPT ![p] =
                  [status |-> "ok", msg |-> "", changed |-> TRUE,
                   sha |-> expected_sha[p], n |-> result[p].n + 1]]
  /\ UNCHANGED <<inputs, remote, fs, expected_sha, actual_sha, changed, start0, log,
                 writes, prev, lookup, shared, plugins>>

\* Line 74: module.exit_json(changed=changed, dest=dest, sha256=expected_sha)
ExitJson(p) ==
  /\ pc[p] = "exit"
  /\ Goto(p, "done")
  /\ result' = [result EXCEPT ![p] =
                  [status |-> "ok", msg |-> "", changed |-> changed[p],
                   sha |-> expected_sha[p], n |-> result[p].n + 1]]
  /\ UNCHANGED <<inputs, remote, fs, expected_sha, actual_sha, changed, start0, log,
                 writes, prev, lookup, shared, plugins>>

\* The process is killed between two statements: nothing more happens and
\* nothing is reported.
Crash(p) ==
  /\ pc[p] \in Running
  /\ Goto(p, "crashed")
  /\ Aborted(p)
  /\ UNCHANGED <<inputs, remote, fs, expected_sha, actual_sha, changed, result,
                 start0, log, writes, prev, lookup, raced, plugins>>

\* ------------------------------------------------------------ environment
\* Between invocations the publisher and the host change what is served and
\* what is on disk; what the last invocation reported is then history.
Quiet == \A p \in Procs : pc[p] \notin Running
Forget ==
  /\ pc' = [p \in Procs |-> "idle"]
  /\ expected_sha' = [p \in Procs |-> <<>>]
  /\ actual_sha' = [p \in Procs |-> <<>>]
  /\ changed' = [p \in Procs |-> FALSE]
  /\ result' = [p \in Procs |-> NoResult]
  /\ dest0' = [p \in Procs |-> NoFile]
  /\ cache0' = [p \in Procs |-> NoFile]
  /\ log' = [p \in Procs |-> <<>>]
  /\ writes' = [p \in Procs |-> {}]
  /\ prev' = NoPrev

EnvRemoteBin ==
  /\ Quiet /\ Forget
  /\ remoteBin' \in (0..MaxContent) \ {remoteBin}
  /\ UNCHANGED <<inputs, remoteManifest, fs, lookup, shared, plugins>>

EnvRemoteManifest ==
  /\ Quiet /\ Forget
  /\ remoteManifest' \in
       ({[up |-> TRUE, text |-> t] : t \in ManifestPool(url)}
          \cup {[up |-> FALSE, text |-> <<>>]}) \ {remoteManifest}
  /\ UNCHANGED <<inputs, remoteBin, fs, lookup, shared, plugins>>

EnvCache ==
  /\ Quiet /\ Forget
  /\ cache_file' \in
       ({File(c, m) : c \in {Partial} \cup Contents, m \in Modes} \cup {NoFile})
          \ {cache_file}
  /\ UNCHANGED <<inputs, remote, checksum_file, dest_file, dirs, lookup, shared, plugins>>

EnvDest ==
  /\ Quiet /\ Forget
  /\ Dirname(dest) = <<>> \/ Dirname(dest) \in dirs
  /\ dest_file' \in ({File(c, m) : c \in Contents, m \in Modes} \cup {NoFile}) \ {dest_file}
  /\ UNCHANGED <<inputs, remote, cache_file, checksum_file, dirs, lookup, shared, plugins>>

Env == EnvRemoteBin \/ EnvRemoteManifest \/ EnvCache \/ EnvDest

\* The statements of main() after its entry.
Body(p) ==
  \/ ExistsCache(p)
  \/ DownloadCache(p) \/ DownloadCacheWrite(p)
  \/ DownloadChecksum(p) \/ DownloadChecksumWrite(p)
  \/ Parse(p) \/ Hash1(p)
  \/ Redownload(p) \/ RedownloadWrite(p) \/ Hash2(p)
  \/ CheckDest(p) \/ Makedirs(p) \/ Replace(p) \/ Chmod(p) \/ ExitJson(p)

Step(p) == Begin(p) \/ Body(p) \/ Crash(p)

Next == Env \/ \E p \in Serial : Step(p)

Spec == Init /\ [][Next]_vars

\* ------------------------------------------------- one run, left to finish
\* Any state of the publisher and of the host a run can start in.
InitRun ==
  /\ url \in Urls
  /\ dest \in Dests
  /\ dirs \in DirStates
  /\ Dirname(dest) = <<>> => dirs = {<<"/">>}
  /\ remoteBin \in 0..MaxContent
  /\ remoteManifest \in {[up |-> TRUE, text |-> t] : t \in ManifestPool(url)}
                          \cup {[up |-> FALSE, text |-> <<>>]}
  /\ cache_file \in {File(c, m) : c \in {Partial} \cup Contents, m \in Modes} \cup {NoFile}
  /\ checksum_file \in {[ex |-> FALSE, text |-> <<>>],
                         [ex |-> TRUE, text |-> OtherEntryManifest]}
  /\ dest_file \in {File(c, m) : c \in Contents, m \in Modes} \cup {NoFile}
  /\ dest_file.ex => (Dirname(dest) = <<>> \/ Dirname(dest) \in dirs)
  /\ pc = [p \in Procs |-> "idle"]
  /\ expected_sha = [p \in Procs |-> <<>>]
  /\ actual_sha = [p \in Procs |-> <<>>]
  /\ changed = [p \in Procs |-> FALSE]
  /\ result = [p \in Procs |-> NoResult]
  /\ dest0 = [p \in Procs |-> NoFile]
  /\ cache0 = [p \in Procs |-> NoFile]
  /\ log = [p \in Procs |-> <<>>]
  /\ writes = [p \in Procs |-> {}]
  /\ prev = NoPrev
  /\ wfd = [p \in Procs |-> NoFd]
  /\ raced = [p \in Procs |-> FALSE]
  /\ DetectorIdle
  /\ ValidatorIdle
  /\ ltext = <<>> /\ lname = <<>> /\ lres = NotFound

\* The module is invoked once.
Start(p) == pc[p] = "idle" /\ Begin(p)

NextRun == \E p \in Serial : Start(p) \/ Body(p)

\* The process is not killed and every blocking call returns: main() goes on
\* to its next statement.
SpecRun == InitRun /\ [][NextRun]_vars /\ WF_vars(NextRun)

\* ------------------------------------ two invocations for the same artifact
\* The publisher serves a binary and a manifest that agree; the cache may hold
\* nothing, the binary, or a stale binary; the destination may hold a stale
\* binary; the destination's directory exists.
InitConc ==
  /\ url \in Urls
  /\ dest = <<"/", "opt", "bin", "ctrld">>
  /\ dirs = Ancestors(Dirname(dest))
  /\ remoteBin = 1
  /\ remoteManifest = [up |-> TRUE, text |-> GoodManifest(url, 1)]
  /\ cache_file \in {NoFile, File(1, Mode644), File(2, Mode644)}
  /\ checksum_file = [ex |-> FALSE, text |-> <<>>]
  /\ dest_file \in {NoFile, File(2, Mode755)}
  /\ pc = [p \in Procs |-> "idle"]
  /\ expected_sha = [p \in Procs |-> <<>>]
  /\ actual_sha = [p \in Procs |-> <<>>]
  /\ changed = [p \in Procs |-> FALSE]
  /\ result = [p \in Procs |-> NoResult]
  /\ dest0 = [p \in Procs |-> NoFile]
  /\ cache0 = [p \in Procs |-> NoFile]
  /\ log = [p \in Procs |-> <<>>]
  /\ writes = [p \in Procs |-> {}]
  /\ prev = NoPrev
  /\ wfd = [p \in Procs |-> NoFd]
  /\ raced = [p \in Procs |-> FALSE]
  /\ DetectorIdle
  /\ ValidatorIdle
  /\ ltext = <<>> /\ lname = <<>> /\ lres = NotFound

\* Each of the two invocations is started once; their statements interleave.
NextConc == \E p \in Procs : Start(p) \/ Body(p)

SpecConc == InitConc /\ [][NextConc]_vars

\* ------------------------------------------- the manifest lookup on its own
Pending == [kind |-> "pending", sha |-> <<>>]

\* Every manifest text up to MaxTextLen characters and every target file name
\* up to MaxNameLen characters (a URL's basename: not empty, no whitespace).
InitLookup ==
  /\ url = <<"h", "/", "a">>
  /\ dest = <<"ctrld">>
  /\ dirs = {<<"/">>}
  /\ remoteBin = 1
  /\ remoteManifest = [up |-> TRUE, text |-> GoodManifest(url, 1)]
  /\ cache_file = NoFile
  /\ checksum_file = [ex |-> FALSE, text |-> <<>>]
  /\ dest_file = NoFile
  /\ pc = [p \in Procs |-> "idle"]
  /\ expected_sha = [p \in Procs |-> <<>>]
  /\ actual_sha = [p \in Procs |-> <<>>]
  /\ changed = [p \in Procs |-> FALSE]
  /\ result = [p \in Procs |-> NoResult]
  /\ dest0 = [p \in Procs |-> NoFile]
  /\ cache0 = [p \in Procs |-> NoFile]
  /\ log = [p \in Procs |-> <<>>]
  /\ writes = [p \in Procs |-> {}]
  /\ prev = NoPrev
  /\ wfd = [p \in Procs |-> NoFd]
  /\ raced = [p \in Procs |-> FALSE]
  /\ DetectorIdle
  /\ ValidatorIdle
  /\ ltext \in SeqsUpTo(TextChars, MaxTextLen)
  /\ lname \in SeqsUpTo(NameChars, MaxNameLen) \ {<<>>}
  /\ lres = Pending

\* Lines 48-53 applied to ltext and lname.
Lookup ==
  /\ lres = Pending
  /\ lres' = ExpectedSha(ltext, lname)
  /\ UNCHANGED <<inputs, remote, fs, locals, prev, ltext, lname, shared, plugins>>

NextLookup == Lookup

SpecLookup == InitLookup /\ [][NextLookup]_vars

\* ------------------------------------------------- a drift detection run
\* The installer is not in use.
InstallerIdle ==
  /\ url = <<"h", "/", "a">>
  /\ dest = <<"ctrld">>
  /\ dirs = {<<"/">>}
  /\ remoteBin = 1
  /\ remoteManifest = [up |-> TRUE, text |-> GoodManifest(url, 1)]
  /\ cache_file = NoFile
  /\ checksum_file = [ex |-> FALSE, text |-> <<>>]
  /\ dest_file = NoFile
  /\ pc = [p \in Procs |-> "idle"]
  /\ expected_sha = [p \in Procs |-> <<>>]
  /\ actual_sha = [p \in Procs |-> <<>>]
  /\ changed = [p \in Procs |-> FALSE]
  /\ result = [p \in Procs |-> NoResult]
  /\ dest0 = [p \in Procs |-> NoFile]
  /\ cache0 = [p \in Procs |-> NoFile]
  /\ log = [p \in Procs |-> <<>>]
  /\ writes = [p \in Procs |-> {}]
  /\ prev = NoPrev
  /\ wfd = [p \in Procs |-> NoFd]
  /\ raced = [p \in Procs |-> FALSE]
  /\ ltext = <<>> /\ lname = <<>> /\ lres = NotFound

installer == <<inputs, remote, fs, locals, prev, lookup, shared>>

\* fail_on_drift with drift_threshold (5.0 is the default, 30.0 a lenient one).
DriftModes ==
  {[fail_on_drift |-> FALSE, drift_threshold |-> 50],
   [fail_on_drift |-> TRUE, drift_threshold |-> 50],
   [fail_on_drift |-> TRUE, drift_threshold |-> 300]}
IgnorePatterns == {<<>>, << <<"b">> >>}

\* _parse_arguments: the task's arguments; drift_results as __init__ leaves it.
InitDrift ==
  /\ InstallerIdle
  /\ \E cp \in SeqsUpTo(Paths, MaxPaths), ip \in IgnorePatterns,
        cc \in CustomChecksPool, m \in DriftModes :
       dargs = [config_paths |-> cp, ignore_patterns |-> ip, custom_checks |-> cc,
                fail_on_drift |-> m.fail_on_drift, drift_threshold |-> m.drift_threshold]
  /\ dhost = [q \in Paths |-> MissingFile]
  /\ drift_analysis = NoAnalysis
  /\ drift_summary = NoSummary
  /\ dresult = NoDriftResult
  /\ dpc = "files"
  /\ ValidatorIdle

\* _execute_drift_detection, lines 203-204: _check_configuration_files when
\* config_paths is not empty, on whatever the host holds for the listed paths.
CheckConfigurationFiles ==
  /\ dpc = "files"
  /\ \E h \in DriftHosts(dargs.config_paths) :
       /\ dhost' = h
       /\ drift_analysis' =
            IF dargs.config_paths # <<>>
              THEN [drift_analysis EXCEPT !.configuration_files =
                      CheckConfigPaths(EmptyFileResults, dargs.config_paths, h,
                                       dargs.ignore_patterns)]
              ELSE drift_analysis
  /\ dpc' = "services"
  /\ UNCHANGED <<installer, validator, dargs, drift_summary, dresult>>

\* _check_services
CheckServices ==
  /\ dpc = "services"
  /\ \E st \in ServiceHosts :
       drift_analysis' = [drift_analysis EXCEPT !.services =
                            CheckKeyServices(EmptyServiceResults, key_services, st)]
  /\ dpc' = "permissions"
  /\ UNCHANGED <<installer, validator, dargs, dhost, drift_summary, dresult>>

\* _check_permissions
CheckPermissions ==
  /\ dpc = "permissions"
  /\ \E present \in PermissionHosts :
       drift_analysis' = [drift_analysis EXCEPT !.permissions =
            [checked_paths |->
               SelectSeq([i \in DOMAIN critical_paths |-> PermissionInfo(critical_paths[i])],
                         LAMBDA e : e.path \in present),
             changed_permissions |-> <<>>]]
  /\ dpc' = "custom"
  /\ UNCHANGED <<installer, validator, dargs, dhost, drift_summary, dresult>>

\* _execute_custom_checks, when custom_checks is not empty.
ExecuteCustomChecks ==
  /\ dpc = "custom"
  /\ \E out \in [DOMAIN dargs.custom_checks -> CommandOutcomes] :
       drift_analysis' =
         IF dargs.custom_checks # <<>>
           THEN [drift_analysis EXCEPT !.custom_checks =
                   [check_results |-> RunCustomChecks(<<>>, dargs.custom_checks, out, 1)]]
           ELSE drift_analysis
  /\ dpc' = "metrics"
  /\ UNCHANGED <<installer, validator, dargs, dhost, drift_summary, dresult>>

\* _calculate_drift_metrics
CalculateDriftMetrics ==
  /\ dpc = "metrics"
  /\ drift_summary' = DriftMetrics(drift_analysis)
  /\ dpc' = "result"
  /\ UNCHANGED <<installer, validator, dargs, dhost, drift_analysis, dresult>>

\* run, lines 109-115: the task result.
DriftResult ==
  /\ dpc = "result"
  /\ dresult' = [status |-> "ok", failed |-> should_fail(dargs, drift_summary)]
  /\ dpc' = "done"
  /\ UNCHANGED <<installer, validator, dargs, dhost, drift_analysis, drift_summary>>

NextDrift ==
  \/ CheckConfigurationFiles
  \/ CheckServices
  \/ CheckPermissions
  \/ ExecuteCustomChecks
  \/ CalculateDriftMetrics
  \/ DriftResult

SpecDrift == InitDrift /\ [][NextDrift]_vars


\* --------------------------------------------------------- a validation run
\* The rule names a task may list beside the ones the defaults give.
RuleNames == {"connectivity_test", "port_accessibility_test", "service_status_check", "no_such_rule"}

\* _parse_arguments: validation_rules is the list the task gives or, when that
\* is empty, the defaults of the device type.
InitValidator ==
  /\ InstallerIdle
  /\ DetectorIdle
  /\ \E dt \in DeviceTypes, given \in SeqsUpTo(RuleNames, MaxRules),
        tp \in {"unset", "scalar"}, ct \in CustomTestsPool, foe \in BOOLEAN :
       vargs = [device_type |-> dt,
                validation_rules |->
                  IF given # <<>> THEN given ELSE get_default_validation_rules(dt),
                test_ports |-> tp, custom_tests |-> ct, fail_on_error |-> foe]
  /\ validation_summary = NoValidationSummary
  /\ detailed_results = NoResults
  /\ vlog = <<>>
  /\ vresult = NoValidatorResult
  /\ vpc = "rules"

Executed(kind, name, status) == [kind |-> kind, name |-> name, status |-> status]
\* Where run() goes after the tests executed so far and one more.
AfterTest ==
  IF Len(vlog) + 1 < Len(vargs.validation_rules) THEN "rules"
  ELSE IF Len(vlog) + 1 < Len(vargs.validation_rules) + Len(vargs.custom_tests) THEN "custom"
  ELSE "result"

\* One iteration of the loop over validation_rules (lines 216-233).
ExecuteValidationRule ==
  /\ vpc = "rules"
  /\ LET rule == vargs.validation_rules[Len(vlog) + 1]
     IN  \E st \in RuleOutcomes(rule, vargs) :
           /\ vlog' = Append(vlog, Executed("rule", rule, st))
           /\ IF st = "raised"
                THEN /\ detailed_results' = (rule :> "error") @@ detailed_results
                     /\ validation_summary' = [validation_summary EXCEPT !.errors = @ + 1]
                ELSE /\ detailed_results' = (rule :> st) @@ detailed_results
                     /\ validation_summary' = update_summary_stats(validation_summary, st)
  /\ vpc' = AfterTest
  /\ UNCHANGED <<installer, detector, vargs, vresult>>

\* One iteration of the loop over custom_tests (lines 236-246).
ExecuteCustomTest ==
  /\ vpc = "custom"
  /\ LET test == vargs.custom_tests[Len(vlog) + 1 - Len(vargs.validation_rules)]
     IN  \E st \in CustomOutcomes(test) :
           /\ vlog' = Append(vlog, Executed("custom", test.name, st))
           /\ IF st = "raised"
                THEN /\ detailed_results' = detailed_results
                     /\ validation_summary' = [validation_summary EXCEPT !.errors = @ + 1]
                ELSE /\ detailed_results' = (test.name :> st) @@ detailed_results
                     /\ validation_summary' = update_summary_stats(validation_summary, st)
  /\ vpc' = AfterTest
  /\ UNCHANGED <<installer, detector, vargs, vresult>>

\* run, lines 88-94: the task result.
ValidatorResult ==
  /\ vpc = "result"
  /\ vresult' = [status |-> "ok",
                 failed |-> validation_summary.failed_tests > 0 /\ vargs.fail_on_error]
  /\ vpc' = "done"
  /\ UNCHANGED <<installer, detector, vargs, validation_summary, detailed_results, vlog>>

NextValidator ==
  \/ ExecuteValidationRule
  \/ ExecuteCustomTest
  \/ ValidatorResult

SpecValidator == InitValidator /\ [][NextValidator]_vars


\* =================================================================== claims
Count(sq, e) == Cardinality({i \in DOMAIN sq : sq[i] = e})
Has(sq, e) == \E i \in DOMAIN sq : sq[i] = e
IsPrefix(a, b) == Len(a) <= Len(b) /\ SubSeq(b, 1, Len(a)) = a
IsBinEvent(e) == e \in {"fetch_bin", "match", "mismatch"}
\* The fetches of the binary and the digest comparisons of a run, in order.
BinTrace(p) == SelectSeq(log[p], IsBinEvent)
\* The digest the publisher's manifest gives for the binary.
Published == ExpectedSha(remoteManifest.text, Basename(url))
\* The manifest and the binary are reachable and the binary matches the manifest.
RemoteGood ==
  /\ remoteBin # 0
  /\ remoteManifest.up
  /\ Published = Found(sha256sum(remoteBin))

\* C1: when the cached binary's digest differs from the expected digest and the
\* re-fetched binary's digest differs too, the run has ended in failure with a
\* checksum mismatch and the destination file is exactly what it was when the
\* run began (same content and mode, or still absent).
C1_IntegrityGate ==
  \A p \in Procs :
    Count(log[p], "mismatch") = 2 =>
      /\ pc[p] = "failed"
      /\ result[p].status = "failed"
      /\ result[p].msg = "mismatch"
      /\ dest_file = dest0[p]

C1_Witness ==
  \E p \in Procs :
    /\ Count(log[p], "mismatch") = 2
    /\ Count(log[p], "fetch_bin") = 1
    /\ dest0[p].ex
    /\ dest_file = dest0[p]

\* C2: two runs in succession with the same inputs, a reachable manifest and a
\* reachable binary that matches it, in neither of which the host or the
\* network raised an error, the first starting from an absent or differing
\* destination: the first reports changed=true, the second changed=false, and
\* the destination's digest is the expected digest after each.
C2_Idempotence ==
  \A p \in Serial :
    ( /\ pc[p] \in {"done", "failed"}
      /\ prev.status # "none"
      /\ RemoteGood
      /\ ~prev.startOk
      /\ prev.msg \notin EnvErrors
      /\ result[p].msg \notin EnvErrors )
    => /\ prev.status = "ok" /\ prev.changed /\ prev.destOk
       /\ result[p].status = "ok" /\ ~result[p].changed
       /\ dest_file.ex /\ sha256sum(dest_file.c) = sha256sum(remoteBin)

\* The same for a destination path with a directory part.
C2_IdempotenceWithDirectory ==
  Dirname(dest) # <<>> => C2_Idempotence

C2_Witness ==
  \E p \in Serial :
    /\ pc[p] = "done" /\ ~result[p].changed
    /\ prev.status = "ok" /\ prev.changed /\ ~prev.startOk
    /\ RemoteGood

\* C3: whenever a run has reported success, the destination file exists, its
\* digest is the digest in the result, and that digest is the one the manifest
\* fetched in this run gives for the binary.
C3_SuccessInvariant ==
  \A p \in Procs :
    pc[p] = "done" =>
      /\ result[p].status = "ok"
      /\ dest_file.ex
      /\ sha256sum(dest_file.c) = result[p].sha
      /\ result[p].sha = expected_sha[p]
      /\ Has(log[p], "fetch_sum")
      /\ Published = Found(result[p].sha)

C3_Witness ==
  \E p \in Procs :
    /\ pc[p] = "done" /\ result[p].changed
    /\ dest0[p].ex /\ dest0[p].c # dest_file.c

\* C4: from the moment a run begins, whatever happens to it (a crash between
\* the verification and the rename included), the destination holds either
\* what it held when the run began or a file whose digest is the digest the
\* run verified; it never holds a partially written file and never disappears.
C4_Atomicity ==
  \A p \in Procs :
    pc[p] # "idle" =>
      IF dest_file.ex
        THEN /\ dest_file.c # Partial
             /\ \/ dest0[p].ex /\ dest_file.c = dest0[p].c
                \/ /\ Has(log[p], "match")
                   /\ sha256sum(dest_file.c) = expected_sha[p]
        ELSE ~dest0[p].ex

\* A run killed after the verification and before the rename.
C4_Witness ==
  \E p \in Procs :
    /\ pc[p] = "crashed"
    /\ Has(log[p], "match") /\ Has(log[p], "makedirs") /\ ~Has(log[p], "chmod")
    /\ dest0[p].ex /\ sha256sum(dest0[p].c) # expected_sha[p]
    /\ dest_file = dest0[p]

\* C5: whenever a run has ended in failure, the destination file has the
\* content and the permission bits it had when the run began.
C5_NoPartialInstallOnFailure ==
  \A p \in Procs : pc[p] = "failed" => dest_file = dest0[p]

\* C6: after a run that installed (changed=true) the destination exists with
\* mode 0755, whatever mode the cache file had.
C6_PermissionContract ==
  \A p \in Procs :
    (pc[p] = "done" /\ result[p].changed) =>
      dest_file.ex /\ dest_file.m = Mode755

\* An install of a cache file that was not executable when the run began.
C6_Witness ==
  \E p \in Procs :
    /\ pc[p] = "done" /\ result[p].changed
    /\ cache0[p].ex /\ cache0[p].m = Mode644
    /\ ~Has(log[p], "fetch_bin")
    /\ dest_file.m = Mode755

\* The destination is already correct when the run begins: it exists and its
\* digest is the one the manifest gives.
StartsCorrect(p) ==
  /\ remoteManifest.up
  /\ dest0[p].ex
  /\ Published = Found(sha256sum(dest0[p].c))

\* C7 as stated, with everything reachable and no host or network error: a
\* run against an already-correct destination reports changed=false and
\* writes no file at all.
C7_ZeroWrites ==
  \A p \in Procs :
    ( /\ pc[p] \in {"done", "failed"}
      /\ StartsCorrect(p)
      /\ RemoteGood
      /\ result[p].msg \notin EnvErrors )
    => /\ result[p].status = "ok" /\ ~result[p].changed
       /\ writes[p] = {}

\* C7 as amended: a run against an already-correct destination never writes
\* the destination: no directory is created, nothing is renamed or chmod-ed,
\* the destination's content and mode stay what they were, and a run that
\* reports success reports changed=false.
C7_NoDestinationWrite ==
  \A p \in Procs :
    (pc[p] # "idle" /\ StartsCorrect(p)) =>
      /\ dest_file = dest0[p]
      /\ writes[p] \subseteq {"cache", "checksum"}
      /\ ~Has(log[p], "makedirs") /\ ~Has(log[p], "replace") /\ ~Has(log[p], "chmod")
      /\ pc[p] = "done" => ~result[p].changed

\* A successful run against a correct destination that wrote both cache files.
C7_Witness ==
  \E p \in Procs :
    /\ pc[p] = "done" /\ StartsCorrect(p)
    /\ ~result[p].changed
    /\ writes[p] = {"cache", "checksum"}

\* The binary-related traces a run can show: an initial fetch only when the
\* cache file was absent, then a comparison, then at most one re-fetch and one
\* more comparison.
AllowedTail ==
  {<<"match">>, <<"mismatch", "fetch_bin", "match">>,
   <<"mismatch", "fetch_bin", "mismatch">>}

\* C8: in a run the binary is fetched at most twice: once at the start when
\* the cache file is absent, and once more right after a digest mismatch; a
\* second mismatch ends the run in failure with no further fetch.
C8_RetryBound ==
  \A p \in Procs :
    LET t == BinTrace(p)
        tail == IF cache0[p].ex \/ t = <<>> THEN t ELSE Tail(t)
    IN  /\ Count(t, "fetch_bin") <= 2
        /\ (~cache0[p].ex /\ t # <<>>) => Head(t) = "fetch_bin"
        /\ \E a \in AllowedTail : IsPrefix(tail, a)
        /\ Count(t, "mismatch") = 2 => pc[p] = "failed"

C8_Witness ==
  \E p \in Procs :
    BinTrace(p) = <<"fetch_bin", "mismatch", "fetch_bin", "mismatch">>

\* Where the lines of a text start, and the line starting at s (with its "\n").
LineStarts(text) == {s \in 1..Len(text) : s = 1 \/ text[s - 1] = "\n"}
LineAt(text, s) ==
  LET ends == {e \in s..Len(text) : text[e] = "\n"}
  IN  SubSeq(text, s, IF ends = {} THEN Len(text)
                      ELSE CHOOSE e \in ends : \A f \in ends : e <= f)
MatchingLines(text, name) == {s \in LineStarts(text) : Contains(LineAt(text, s), name)}
IsFirstToken(line, tok) ==
  \E i \in 1..Len(line) : \E j \in i..Len(line) :
    /\ \A k \in 1..(i - 1) : line[k] \in Whitespace
    /\ \A k \in i..j : line[k] \notin Whitespace
    /\ j = Len(line) \/ line[j + 1] \in Whitespace
    /\ tok = SubSeq(line, i, j)

\* C9: the lookup yields the first whitespace-separated token of the first
\* line, in file order, that contains the target file name as a substring,
\* and not-found when no line contains it.
C9_ManifestLookup ==
  lres # Pending =>
    LET m == MatchingLines(ltext, lname)
    IN  IF m = {} THEN lres = NotFound
        ELSE LET s == CHOOSE x \in m : \A y \in m : x <= y
             IN  lres.kind = "found" /\ IsFirstToken(LineAt(ltext, s), lres.sha)

\* Two lines match and their first tokens differ: the first one is returned.
C9_Witness ==
  /\ lres.kind = "found"
  /\ Cardinality(MatchingLines(ltext, lname)) >= 2
  /\ ExpectedShaLastWins(ltext, lname) # lres

\* No line of the manifest the run has read contains the basename of url.
NoLineNames(p) ==
  /\ Has(log[p], "parse")
  /\ checksum_file.ex
  /\ MatchingLines(checksum_file.text, Basename(url)) = {}

\* C10: when no line of the fetched manifest contains the basename of url,
\* the run has ended in failure at the lookup: no digest was compared, the
\* binary was not re-fetched, and the destination is what it was.
C10_EntryNotFound ==
  \A p \in Procs :
    NoLineNames(p) =>
      /\ pc[p] = "failed"
      /\ result[p].msg = "notfound"
      /\ ~Has(log[p], "match") /\ ~Has(log[p], "mismatch")
      /\ log[p][Len(log[p])] = "parse"
      /\ Count(log[p], "fetch_bin") = (IF cache0[p].ex THEN 0 ELSE 1)
      /\ dest_file = dest0[p]

C10_Witness ==
  \E p \in Procs :
    /\ NoLineNames(p)
    /\ result[p].msg = "notfound"
    /\ dest0[p].ex /\ cache0[p].ex

\* The outcome a run has reported matches where it stands: none while it
\* runs, one success at exit_json, one failure with a message at fail_json.
OutcomeMatches(p) ==
  /\ pc[p] # "crashed"
  /\ pc[p] \in Running \cup {"idle"} => result[p] = NoResult
  /\ pc[p] = "done" => result[p].status = "ok" /\ result[p].n = 1
  /\ pc[p] = "failed" =>
       result[p].status = "failed" /\ result[p].msg # "" /\ result[p].n = 1

\* The statements of main() in the order control passes through them.
\* C11: every run ends, in exactly one outcome. While it runs it has reported
\* nothing; it eventually stops at exit_json or fail_json; where it stops it
\* has reported exactly one success or exactly one failure with a message, and
\* that report is never changed afterwards; an error raised at any stage gives
\* the failure outcome, never an exit without one.
C11_SingleOutcome ==
  /\ [](\A p \in Procs : OutcomeMatches(p))
  /\ \A p \in Serial : (pc[p] \in Running) ~> (pc[p] \in {"done", "failed"})
  /\ [][\A p \in Procs : pc[p] \in Terminal =>
         pc'[p] = pc[p] /\ result'[p] = result[p]]_vars

\* A failure raised by the rename, caught and reported once.
C11_Witness ==
  \E p \in Procs :
    /\ pc[p] = "failed"
    /\ result[p] = [status |-> "failed", msg |-> "EXDEV", changed |-> FALSE,
                    sha |-> <<>>, n |-> 1]

\* The destination holds the binary whose digest p reported.
DestMatches(p) == dest_file.ex /\ sha256sum(dest_file.c) = result[p].sha

\* C12: with a correct publisher and no host or network error, an invocation
\* that no other invocation has raced ends in success with the destination
\* holding the published binary; a success over a destination with another
\* digest, and a failure, need a second invocation writing the shared cache
\* file, manifest file or destination while the first one runs (C12_Witness
\* is the state where that has happened).
C12_UnsafeOnlyWhenRaced ==
  \A p \in Procs :
    (pc[p] \in {"done", "failed"} /\ result[p].msg \notin EnvErrors /\ ~raced[p]) =>
      /\ pc[p] = "done"
      /\ result[p].sha = sha256sum(remoteBin)
      /\ DestMatches(p)

\* One invocation has verified the cache file, renamed it onto the destination
\* and reported success with the published digest, while the other, which
\* truncated that file for its own download in between, is still writing it:
\* the destination holds a file with another digest.
C12_Witness ==
  \E p, q \in Procs :
    /\ p # q
    /\ RemoteGood
    /\ pc[p] = "done" /\ result[p].changed
    /\ result[p].sha = sha256sum(remoteBin)
    /\ ~DestMatches(p)
    /\ raced[p]
    /\ wfd[q].at = "dest"

\* C13 as stated: after every successful run the returned digest is the digest
\* of the destination file and of the cache file, which still exists.
C13_DigestMatchesCacheToo ==
  \A p \in Procs :
    pc[p] = "done" =>
      /\ DestMatches(p)
      /\ cache_file.ex /\ sha256sum(cache_file.c) = result[p].sha

\* C13, amended: after every successful run the returned digest is the digest
\* of the destination file; after a run with changed=false it is also the
\* digest of the cache file, which still exists; after a run with
\* changed=true the cache file has been renamed onto the destination and is
\* no longer in the cache.
C13_DigestMatchesInstalled ==
  \A p \in Procs :
    pc[p] = "done" =>
      /\ DestMatches(p)
      /\ result[p].changed => ~cache_file.ex
      /\ ~result[p].changed =>
           cache_file.ex /\ sha256sum(cache_file.c) = result[p].sha

\* A run that found the binary in the cache, installed it, and left the
\* cache empty.
C13_Witness ==
  \E p \in Procs :
    /\ pc[p] = "done" /\ result[p].changed
    /\ cache0[p].ex /\ ~cache_file.ex
    /\ DestMatches(p)

\* The destination as the run found it needs an install.
NeedsInstall(p) == ~dest0[p].ex \/ sha256sum(dest0[p].c) # result[p].sha

\* C14: for every run that reports success, changed is true exactly when the
\* destination was absent or had another digest than the expected one at the
\* idempotence check, and exactly when the run replaced the destination.
C14_ChangedFlag ==
  \A p \in Procs :
    pc[p] = "done" =>
      /\ result[p].changed <=> NeedsInstall(p)
      /\ result[p].changed <=> "dest" \in writes[p]
      /\ result[p].changed <=> Has(log[p], "replace")
      /\ ~result[p].changed => dest_file = dest0[p]

\* A run that replaced an existing destination with another digest.
C14_Witness ==
  \E p \in Procs :
    /\ pc[p] = "done" /\ result[p].changed
    /\ dest0[p].ex /\ sha256sum(dest0[p].c) # result[p].sha
    /\ "dest" \in writes[p]
    /\ dest_file # dest0[p]

\* C15: a run that finds the cache file present does not fetch the binary
\* before it has compared the cached file's digest; if that digest equals the
\* expected digest the run never fetches the binary, and the manifest is the
\* one thing it fetches.
C15_CacheHit ==
  \A p \in Procs :
    (pc[p] # "idle" /\ cache0[p].ex) =>
      /\ BinTrace(p) # <<>> => BinTrace(p)[1] # "fetch_bin"
      /\ ~Has(log[p], "parse") => ~Has(log[p], "fetch_bin")
      /\ sha256sum(cache0[p].c) = expected_sha[p] =>
           /\ ~Has(log[p], "fetch_bin")
           /\ "cache" \in writes[p] => Has(log[p], "replace")
           /\ Count(log[p], "fetch_sum") = 1

\* A run that installed the cached binary without fetching it.
C15_Witness ==
  \E p \in Procs :
    /\ pc[p] = "done" /\ result[p].changed
    /\ cache0[p].ex /\ sha256sum(cache0[p].c) = result[p].sha
    /\ ~Has(log[p], "fetch_bin")
    /\ Count(log[p], "fetch_sum") = 1

\* Position of the first occurrence of e in sq (0 when there is none).
FirstAt(sq, e) ==
  IF Has(sq, e)
    THEN CHOOSE i \in DOMAIN sq : sq[i] = e /\ \A j \in 1..(i - 1) : sq[j] # e
    ELSE 0

\* C16: a run on its own that reads the manifest file has fetched the
\* manifest before, in this same run and exactly once, whether or not it
\* found a binary cache file or a manifest file left by an earlier run; what
\* it reads is what the publisher serves now, and the expected digest is the
\* one that text gives.
C16_ManifestCurrent ==
  \A p \in Procs :
    /\ Has(log[p], "parse") =>
         /\ Count(log[p], "fetch_sum") = 1
         /\ FirstAt(log[p], "fetch_sum") < FirstAt(log[p], "parse")
         /\ "checksum" \in writes[p]
         /\ checksum_file = [ex |-> TRUE, text |-> remoteManifest.text]
         /\ expected_sha[p] # <<>> => Found(expected_sha[p]) = Published
    /\ pc[p] \in {"hash1", "redl", "redl_w", "hash2", "check_dest", "makedirs",
                  "replace", "chmod", "exit", "done"} => Has(log[p], "parse")

\* A run that follows a successful run (whose manifest file and binary cache
\* file are still there) and has fetched the manifest again.
C16_Witness ==
  \E p \in Procs :
    /\ prev.status = "ok"
    /\ cache0[p].ex
    /\ pc[p] = "done"
    /\ Count(log[p], "fetch_sum") = 1
    /\ FirstAt(log[p], "fetch_sum") < FirstAt(log[p], "parse")

IsFetch(e) == e \in {"fetch_bin", "fetch_sum"}
IsInstall(e) == e \in {"makedirs", "replace", "chmod"}
FetchErrors == {"URLError", "ContentTooShort"}

\* C17: a run in which a fetch failed has ended in failure, the failed fetch
\* is the last thing it did (no fetch and no install step follows) and the
\* destination is what it was; a run fetches the manifest at most once and
\* the binary at most twice, the second time only right after a mismatch.
C17_NoFetchRetry ==
  \A p \in Procs :
    /\ result[p].msg \in FetchErrors =>
         /\ pc[p] = "failed"
         /\ IsFetch(log[p][Len(log[p])])
         /\ SelectSeq(log[p], IsInstall) = <<>>
         /\ dest_file = dest0[p]
    /\ Count(log[p], "fetch_sum") <= 1
    /\ Count(log[p], "fetch_bin") <= 2
    /\ \A i \in DOMAIN log[p] :
         (log[p][i] = "fetch_bin" /\ i > 1) => log[p][i - 1] = "mismatch"

\* The re-fetch after a mismatch failed, and the run ended there.
C17_Witness ==
  \E p \in Procs :
    /\ pc[p] = "failed"
    /\ result[p].msg = "ContentTooShort"
    /\ Has(log[p], "mismatch")
    /\ log[p][Len(log[p])] = "fetch_bin"
    /\ dest0[p].ex

\* C18: makedirs, rename and chmod come only after the cache file's digest
\* was found equal to the expected digest in this run, nothing else follows
\* that comparison, and they come in the order makedirs, rename, chmod;
\* a run that has written the destination has made that comparison.
C18_VerifyBeforeInstall ==
  \A p \in Procs :
    /\ IsPrefix(SelectSeq(log[p], IsInstall), <<"makedirs", "replace", "chmod">>)
    /\ \A i \in DOMAIN log[p] :
         IsInstall(log[p][i]) =>
           /\ Has(log[p], "match")
           /\ FirstAt(log[p], "match") < i
           /\ \A j \in (FirstAt(log[p], "match") + 1)..i : IsInstall(log[p][j])
    /\ "dest" \in writes[p] => Has(log[p], "match")
    /\ pc[p] \in {"makedirs", "replace"} =>
         /\ Has(log[p], "match")
         /\ cache_file.ex /\ sha256sum(cache_file.c) = expected_sha[p]
    /\ pc[p] = "chmod" =>
         dest_file.ex /\ sha256sum(dest_file.c) = expected_sha[p]

\* An install after a mismatch, a re-fetch and a match.
C18_Witness ==
  \E p \in Procs :
    /\ pc[p] = "done"
    /\ SelectSeq(log[p], IsInstall) = <<"makedirs", "replace", "chmod">>
    /\ BinTrace(p) = <<"mismatch", "fetch_bin", "match">>
    /\ dest0[p].ex

\* C19 as stated: once the cache file is verified and an install is needed,
\* makedirs leaves the destination's parent directory in place and the run
\* goes on to the rename, unless the host refuses to create the directory.
C19_ParentDirectory ==
  \A p \in Procs :
    (Has(log[p], "makedirs") /\ result[p].msg # "EACCES") =>
      /\ Has(log[p], "replace") \/ pc[p] = "replace"
      /\ Dirname(dest) = <<>> \/ Dirname(dest) \in dirs

\* The same for destinations that have a directory part: holds.
C19_ParentDirectoryOfPath ==
  \A p \in Procs :
    (Has(log[p], "makedirs") /\ result[p].msg # "EACCES" /\ Dirname(dest) # <<>>) =>
      /\ Has(log[p], "replace") \/ pc[p] = "replace"
      /\ Dirname(dest) \in dirs

\* The publisher's manifest lists another file's line first, and the run has
\* read it.
FalseMatch(p) ==
  /\ remoteManifest = [up |-> TRUE, text |-> FalseMatchManifest(url)]
  /\ Has(log[p], "parse")

\* C20: when the first manifest line containing the target name is the line
\* of another file (name "ab" before the entry for "a"), the expected digest
\* is that line's digest, not the target's, and the run verifies against it:
\* a cached or fetched binary passes only with that digest, the digest
\* reported and installed is that one, and the binary the manifest really
\* lists for the target is rejected as a checksum mismatch.
C20_SubstringFalseMatch ==
  \A p \in Procs :
    FalseMatch(p) =>
      /\ expected_sha[p] = sha256sum(2)
      /\ expected_sha[p] # sha256sum(1)
      /\ Has(log[p], "match") => actual_sha[p] = sha256sum(2)
      /\ pc[p] = "done" => result[p].sha = sha256sum(2) /\ dest_file.c = 2
      /\ (remoteBin = 1 /\ pc[p] = "failed" /\ Count(log[p], "fetch_bin") = 2
            /\ result[p].msg \notin EnvErrors) => result[p].msg = "mismatch"

\* The binary the manifest lists for the target was fetched twice and
\* rejected twice.
C20_Witness ==
  \E p \in Procs :
    /\ FalseMatch(p)
    /\ remoteBin = 1
    /\ pc[p] = "failed" /\ result[p].msg = "mismatch"
    /\ Count(log[p], "fetch_bin") = 2
    /\ expected_sha[p] = sha256sum(2)

\* The destination the run found has the digest the run expects.
FoundInstalled(p) ==
  /\ pc[p] # "idle"
  /\ expected_sha[p] # <<>>
  /\ dest0[p].ex /\ sha256sum(dest0[p].c) = expected_sha[p]

\* C21: a run that finds the destination with the expected digest leaves its
\* content and its permission bits as they are; it makes no chmod, so a
\* destination without execute bits keeps them off, and the run, when it
\* succeeds, reports changed=false; so does the run after it.
C21_NoRepair ==
  \A p \in Procs :
    /\ FoundInstalled(p) =>
         /\ dest_file = dest0[p]
         /\ ~Has(log[p], "chmod") /\ ~Has(log[p], "replace")
         /\ pc[p] = "done" => ~result[p].changed
    /\ (pc[p] # "idle" /\ prev.status = "ok" /\ ~prev.changed) =>
         /\ dest_file = dest0[p]
         /\ pc[p] = "done" => ~result[p].changed

\* Two successful runs in a row over a destination with the right content and
\* mode 0644: both report changed=false and the mode is still 0644.
C21_Witness ==
  \E p \in Procs :
    /\ prev.status = "ok" /\ ~prev.changed
    /\ pc[p] = "done" /\ ~result[p].changed
    /\ DestMatches(p)
    /\ dest0[p].m = Mode644 /\ dest_file.m = Mode644

\* C22: a run that reports changed=true leaves no cache file, a run that
\* reports changed=false leaves the cache file; the run that follows a
\* changed=true run with the same inputs finds no cache file and starts by
\* fetching the binary; the run that follows a changed=false run finds the
\* cache file and fetches the manifest only.
C22_CacheConsumed ==
  \A p \in Procs :
    /\ pc[p] = "done" => (result[p].changed <=> ~cache_file.ex)
    /\ (pc[p] # "idle" /\ prev.status = "ok" /\ prev.changed) =>
         /\ ~cache0[p].ex
         /\ log[p] # <<>> => log[p][1] = "fetch_bin"
         /\ pc[p] \notin {"exists_cache", "dl_bin", "crashed"} => log[p] # <<>>
    /\ (pc[p] # "idle" /\ prev.status = "ok" /\ ~prev.changed) =>
         /\ cache0[p].ex
         /\ ~Has(log[p], "fetch_bin")
         /\ pc[p] = "done" => Count(log[p], "fetch_sum") = 1

\* The run after an install has fetched the binary again and found the
\* destination already in place.
C22_Witness ==
  \E p \in Procs :
    /\ prev.status = "ok" /\ prev.changed
    /\ pc[p] = "done" /\ ~result[p].changed
    /\ log[p][1] = "fetch_bin"
    /\ cache_file.ex

\* The run found a cache file whose digest is not the published one, and the
\* publisher serves a binary that matches its manifest.
StaleCache(p) ==
  /\ pc[p] # "idle"
  /\ RemoteGood
  /\ cache0[p].ex /\ Found(sha256sum(cache0[p].c)) # Published

\* C23 as stated: a run that starts with a stale or partial cache file and a
\* correct publisher, and meets no host or network error, succeeds after
\* exactly one re-fetch, with the destination's digest the expected one.
C23_Recovery ==
  \A p \in Procs :
    (StaleCache(p) /\ pc[p] \in {"done", "failed"} /\ result[p].msg \notin EnvErrors) =>
      /\ pc[p] = "done"
      /\ BinTrace(p) = <<"mismatch", "fetch_bin", "match">>
      /\ DestMatches(p) /\ Found(result[p].sha) = Published

\* The same for destinations that have a directory part: holds.
C23_RecoveryWithDirectory ==
  \A p \in Procs :
    (StaleCache(p) /\ pc[p] \in {"done", "failed"} /\ result[p].msg \notin EnvErrors
       /\ Dirname(dest) # <<>>) =>
      /\ pc[p] = "done"
      /\ BinTrace(p) = <<"mismatch", "fetch_bin", "match">>
      /\ DestMatches(p) /\ Found(result[p].sha) = Published

\* C24: the destination's content changes only by the rename, which takes the
\* cache file away; when the rename fails the run has ended in failure right
\* there, the destination is what it was (or still absent), the verified
\* cache file is still in the cache and nothing has been written to the
\* destination.
C24_RenameOnly ==
  \A p \in Procs :
    /\ (pc[p] # "idle" /\ dest_file # dest0[p]) =>
         /\ Has(log[p], "replace")
         /\ ~cache_file.ex
    /\ (Has(log[p], "replace") /\ pc[p] # "replace" /\ ~Has(log[p], "chmod")
          /\ pc[p] # "chmod") =>
         /\ pc[p] = "failed"
         /\ result[p].msg \in {"EXDEV", "ENOENT"}
         /\ log[p][Len(log[p])] = "replace"
         /\ dest_file = dest0[p]
         /\ "dest" \notin writes[p]
         /\ cache_file.ex /\ sha256sum(cache_file.c) = expected_sha[p]

\* The rename onto an existing destination failed across filesystems.
C24_Witness ==
  \E p \in Procs :
    /\ pc[p] = "failed" /\ result[p].msg = "EXDEV"
    /\ dest0[p].ex /\ dest_file = dest0[p]
    /\ cache_file.ex /\ sha256sum(cache_file.c) = expected_sha[p]

\* ----------------------------------------------------- the drift detector
DriftScored == dpc \in {"result", "done"}
DriftSeverities == {"critical", "major", "minor"}
DriftKinds == {"modified", "new", "deleted", "service", "custom"}
\* The analysis with one more drifted item of the given kind and severity.
WithDrift(a, kind, sev) ==
  CASE kind = "modified" ->
         [a EXCEPT !.configuration_files.modified_files = Append(@, FileInfo(<<"x">>, sev))]
    [] kind = "new" ->
         [a EXCEPT !.configuration_files.new_files = Append(@, FileInfo(<<"x">>, sev))]
    [] kind = "deleted" ->
         [a EXCEPT !.configuration_files.deleted_files = Append(@, FileInfo(<<"x">>, sev))]
    [] kind = "service" ->
         LET info == [name |-> "extra", status |-> "inactive", severity |-> sev]
         IN  [a EXCEPT !.services.checked_services = Append(@, info),
                       !.services.stopped_services = Append(@, info)]
    [] kind = "custom" ->
         [a EXCEPT !.custom_checks.check_results = Append(@, CheckResult(TRUE, sev))]

\* C25: after _calculate_drift_metrics the drift score (in tenths) lies between
\* 0 and 100, it is 100 when no check was performed or no drift was found, and
\* one more drifted item of any kind and severity never gives a higher score.
C25_DriftScoreRange ==
  DriftScored =>
    /\ drift_summary.drift_score >= 0
    /\ drift_summary.drift_score <= 1000
    /\ (drift_summary.total_checks = 0 \/ drift_summary.drift_detected = 0)
         => drift_summary.drift_score = 1000
    /\ \A kind \in DriftKinds, sev \in DriftSeverities :
         DriftMetrics(WithDrift(drift_analysis, kind, sev)).drift_score
           <= drift_summary.drift_score

\* Drift was found and the score is strictly between the two ends.
C25_Witness ==
  /\ dpc = "done"
  /\ drift_summary.drift_detected > 1
  /\ drift_summary.drift_score > 0
  /\ drift_summary.drift_score < 1000

\* The drifted items of the analysis, as _calculate_drift_metrics reads them.
DriftItems(a) ==
  a.configuration_files.modified_files \o a.configuration_files.new_files
    \o a.configuration_files.deleted_files \o a.services.stopped_services
    \o a.permissions.changed_permissions \o Drifted(a.custom_checks.check_results)

\* C26: after _calculate_drift_metrics, critical_drift + major_drift +
\* minor_drift equals drift_detected, drift_detected is the number of drifted
\* items of the analysis, and drift_detected is at most total_checks.
C26_CounterConsistency ==
  DriftScored =>
    /\ drift_summary.critical_drift + drift_summary.major_drift
         + drift_summary.minor_drift = drift_summary.drift_detected
    /\ drift_summary.drift_detected = Len(DriftItems(drift_analysis))
    /\ drift_summary.drift_detected <= drift_summary.total_checks
    /\ drift_summary.critical_drift >= 0
    /\ drift_summary.major_drift >= 0
    /\ drift_summary.minor_drift >= 0

\* Drift of all three severities, one item under a severity name that is
\* neither critical nor major nor minor, and checks without drift.
C26_Witness ==
  /\ dpc = "done"
  /\ drift_summary.critical_drift > 0
  /\ drift_summary.major_drift > 0
  /\ drift_summary.minor_drift > 0
  /\ \E i \in DOMAIN DriftItems(drift_analysis) :
       DriftItems(drift_analysis)[i].severity \notin DriftSeverities
  /\ drift_summary.drift_detected < drift_summary.total_checks

\* C27: at the end of a drift detection run, with fail_on_drift false the task
\* is not marked failed, whatever the score and the drift found; with
\* fail_on_drift true it is marked failed exactly when drift_score is below
\* 100 minus drift_threshold or critical_drift is greater than 0.
C27_FailureDecision ==
  dpc = "done" =>
    /\ ~dargs.fail_on_drift => ~dresult.failed
    /\ dargs.fail_on_drift =>
         (dresult.failed <=>
            \/ drift_summary.drift_score < 1000 - dargs.drift_threshold
            \/ drift_summary.critical_drift > 0)

\* A run that fails on critical drift alone: the score is within the threshold.
C27_Witness ==
  /\ dpc = "done"
  /\ dargs.fail_on_drift
  /\ dresult.failed
  /\ drift_summary.critical_drift > 0
  /\ drift_summary.drift_score >= 1000 - dargs.drift_threshold

Listed(items, path) == \E i \in DOMAIN items : items[i].path = path
\* The lists of the configuration-file result that name the path.
ListsNaming(f, path) ==
  {l \in {"checked_files", "modified_files", "new_files", "deleted_files"} :
     Listed(f[l], path)}
Ignored(path) == should_ignore_path(path, dargs.ignore_patterns)

\* C28: after _check_configuration_files, a configuration path that matches an
\* ignore pattern is in none of checked_files, modified_files, new_files,
\* deleted_files and checksum_changes, whether or not it exists on the host,
\* and every other path is in at most one of the four lists.
C28_IgnoredSkipped ==
  dpc # "files" =>
    \A path \in Range(dargs.config_paths) :
      LET f == drift_analysis.configuration_files
      IN  IF Ignored(path)
            THEN ListsNaming(f, path) = {} /\ path \notin f.checksum_changes
            ELSE Cardinality(ListsNaming(f, path)) <= 1

\* What the code does ensure: an ignored path that exists is skipped, an
\* ignored path that does not exist is reported in deleted_files alone, and
\* every other path is in exactly one of the four lists.
C28_IgnoredSkippedWhenPresent ==
  dpc # "files" =>
    \A path \in Range(dargs.config_paths) :
      LET f == drift_analysis.configuration_files
      IN  /\ Ignored(path) /\ dhost[path].ex
              => ListsNaming(f, path) = {} /\ path \notin f.checksum_changes
          /\ ~dhost[path].ex
              => ListsNaming(f, path) = {"deleted_files"} /\ path \notin f.checksum_changes
          /\ ~Ignored(path) => Cardinality(ListsNaming(f, path)) = 1

\* --------------------------------------------------- the network validator
CountStatus(st) == Cardinality({i \in DOMAIN vlog : vlog[i].status = st})

\* C29: after any sequence of executed rules and custom tests, passed_tests +
\* failed_tests + warnings is at most total_tests, every executed test has
\* added one to total_tests and to at most one of the three counters, and at
\* the end of the run the task is failed exactly when failed_tests > 0 and
\* fail_on_error is set, so never on results with status error or skipped alone.
C29_SummaryCounters ==
  /\ validation_summary.passed_tests + validation_summary.failed_tests
       + validation_summary.warnings <= validation_summary.total_tests
  /\ validation_summary.total_tests = Len(vlog)
  /\ validation_summary.passed_tests = CountStatus("passed")
  /\ validation_summary.failed_tests = CountStatus("failed")
  /\ validation_summary.warnings = CountStatus("warning")
  /\ vpc = "done" =>
       /\ vresult.failed <=> (validation_summary.failed_tests > 0 /\ vargs.fail_on_error)
       /\ CountStatus("failed") = 0 => ~vresult.failed

\* What the code does ensure: total_tests counts the tests whose handler
\* returned a result; a test that raised is in errors but not in total_tests.
C29_SummaryCountersOfReturned ==
  /\ validation_summary.passed_tests + validation_summary.failed_tests
       + validation_summary.warnings <= validation_summary.total_tests
  /\ validation_summary.total_tests = Len(vlog) - CountStatus("raised")
  /\ validation_summary.errors = CountStatus("raised")
  /\ validation_summary.passed_tests = CountStatus("passed")
  /\ validation_summary.failed_tests = CountStatus("failed")
  /\ validation_summary.warnings = CountStatus("warning")
  /\ vpc = "done" =>
       /\ vresult.failed <=> (validation_summary.failed_tests > 0 /\ vargs.fail_on_error)
       /\ CountStatus("failed") = 0 => ~vresult.failed

\* C30: executing a rule whose name is not in rule_methods records a result
\* with status skipped under that name in detailed_results, adds one to
\* total_tests, leaves passed_tests, failed_tests, warnings and errors as they
\* were, and goes on to the next rule; by the end of the run every rule and
\* every custom test has been executed.
C30_UnknownRuleSkipped ==
  /\ [][(vpc = "rules" /\ vargs.validation_rules[Len(vlog) + 1] \notin rule_methods) =>
          LET rule == vargs.validation_rules[Len(vlog) + 1]
          IN  /\ vlog' = Append(vlog, Executed("rule", rule, "skipped"))
              /\ rule \in DOMAIN detailed_results'
              /\ detailed_results'[rule] = "skipped"
              /\ validation_summary' =
                   [validation_summary EXCEPT !.total_tests = @ + 1]
              /\ Len(vlog') < Len(vargs.validation_rules) => vpc' = "rules"
              /\ vpc' # "done"]_vars
  /\ [](vpc = "done" =>
          Len(vlog) = Len(vargs.validation_rules) + Len(vargs.custom_tests))

\* A name from the validator's own defaults that is not in rule_methods has
\* been skipped and another rule has run after it.
C30_Witness ==
  \E i \in DOMAIN vlog :
    /\ vlog[i].kind = "rule"
    /\ vlog[i].name \notin rule_methods
    /\ vlog[i].name \in Range(get_default_validation_rules(vargs.device_type))
    /\ vlog[i].status = "skipped"
    /\ detailed_results[vlog[i].name] = "skipped"
    /\ i < Len(vlog)
    /\ vlog[i + 1].kind = "rule"

====
